---------------------------- MODULE Spec2Model ----------------------------
(***************************************************************************)
(* Lab binning, gamut enumeration, representative aggregation and lookup   *)
(* texture construction of scrapbook/color-distance-tests and              *)
(* scrapbook/color_recognition.                                            *)
(*                                                                         *)
(* Numbers.  The scripts compute in floating point; the model computes in  *)
(* fixed point:                                                            *)
(*   RGB in [0,1]      integer multiples of 1/RGB_ONE   (a byte k is k*40) *)
(*   linear RGB, XYZ   integer multiples of 1/LIN_ONE                      *)
(*   f(t) of CIE Lab   integer multiples of 1/F_ONE                        *)
(*   L, a, b           thousandths of a Lab unit (L = 100 is 100000)       *)
(*   probabilities     integer weights                                     *)
(* pow(x, 2.4) is tabulated at the 256 byte values (GammaTable) and        *)
(* interpolated linearly in between; pow(x, 1/3) is the integer cube root. *)
(*                                                                         *)
(* Lattice.  The scripts walk the 256 x 256 x 256 lattice of byte triples; *)
(* the model walks Levels x Levels x Levels byte triples, the byte values  *)
(* spread evenly over 0..255 (vals).                                       *)
(***************************************************************************)
EXTENDS Integers, Sequences, FiniteSets, TLC

(***************************************************************************)
(* Bounds of the model.                                                    *)
(***************************************************************************)
Levels == 3          \* sampled byte values per channel (the code: 256)
MaxBins == 3         \* largest `bins` argument tried
MaxBatch == 4        \* batch sizes 1..MaxBatch are tried beside the code's own
MaxBucket == 3       \* longest synthetic bucket handed to the aggregation policies
MaxWidth == 2        \* widest input image handed to recolor_image
MaxHeight == 2       \* tallest input image handed to recolor_image

(***************************************************************************)
(* Fixed-point scales.                                                     *)
(***************************************************************************)
RGB_ONE == 255 * 40   \* 1.0 of an RGB channel: 40 units per byte step
LIN_ONE == 100 * 100     \* 1.0 of linear RGB and of XYZ
F_ONE == 10 * 100        \* 1.0 of f(t); also one Lab unit

\* Python's None; also the value of a variable the running program does not have
None == <<>>

Min(x, y) == IF x < y THEN x ELSE y
Max(x, y) == IF x > y THEN x ELSE y

\* np.clip(v, lo, hi) and x.clamp(lo, hi)
clip(v, lo, hi) == Max(lo, Min(hi, v))

(***************************************************************************)
(* generate_textures.py: configuration                                     *)
(***************************************************************************)
BINS == 3
Methods == {"average", "darkest", "brightest"}
\* a method name that is none of the three
OtherMethods == {"median"}
\* batch_size = 100000 in compute_bin_representatives and build_rgb_texture
batch_size_const == 100000

(***************************************************************************)
(* The lattice: r_vals = g_vals = b_vals, meshgrid(indexing='ij'), flatten *)
(***************************************************************************)
\* np.arange(256): position k of the sampled axis holds this byte
vals == [k \in 0..(Levels - 1) |-> IF Levels = 1 THEN 0 ELSE (k * 255) \div (Levels - 1)]

total_points == Levels * Levels * Levels

\* meshgrid(..., indexing='ij'): grid[i][j][k] is the axis value picked by axis
\* `axis` (0: r, 1: g, 2: b) from the position triple
grid(axis) == [i \in 0..(Levels - 1) |-> [j \in 0..(Levels - 1) |->
                 [k \in 0..(Levels - 1) |->
                    vals[IF axis = 0 THEN i ELSE IF axis = 1 THEN j ELSE k]]]]

\* ndarray.flatten() in C order: the last axis varies fastest
RECURSIVE FlattenRow(_, _)
FlattenRow(row, k) ==
    IF k = Levels THEN <<>> ELSE <<row[k]>> \o FlattenRow(row, k + 1)

RECURSIVE FlattenPlane(_, _)
FlattenPlane(plane, j) ==
    IF j = Levels THEN <<>> ELSE FlattenRow(plane[j], 0) \o FlattenPlane(plane, j + 1)

RECURSIVE FlattenCube(_, _)
FlattenCube(cube, i) ==
    IF i = Levels THEN <<>> ELSE FlattenPlane(cube[i], 0) \o FlattenCube(cube, i + 1)

\* r_flat, g_flat, b_flat; Python index n is element n + 1 of the sequence
r_flat == FlattenCube(grid(0), 0)
g_flat == FlattenCube(grid(1), 0)
b_flat == FlattenCube(grid(2), 0)

\* the byte triple at flat Python index n
PointAt(n) == <<r_flat[n + 1], g_flat[n + 1], b_flat[n + 1]>>

Lattice == {PointAt(n) : n \in 0..(total_points - 1)}

(***************************************************************************)
(* Colour conversion: generate_textures.py / generate_bins.py (torch)      *)
(***************************************************************************)
\* 10^4 * ((k/255 + 0.055) / 1.055) ^ 2.4 for the bytes k = 0..255
GammaTable ==
    << 8, 10, 11, 13, 15, 17, 20, 22, 25, 27, 30, 33, 37, 40, 44, 48,
       52, 56, 60, 65, 70, 75, 80, 86, 91, 97, 103, 110, 116, 123, 130, 137,
       144, 152, 160, 168, 176, 185, 194, 203, 212, 222, 232, 242, 252, 262, 273, 284,
       296, 307, 319, 331, 343, 356, 369, 382, 395, 409, 423, 437, 452, 467, 482, 497,
       513, 529, 545, 561, 578, 595, 612, 630, 648, 666, 685, 704, 723, 742, 762, 782,
       802, 823, 844, 865, 887, 908, 931, 953, 976, 999, 1022, 1046, 1070, 1095, 1119, 1144,
       1170, 1195, 1221, 1248, 1274, 1301, 1329, 1356, 1384, 1413, 1441, 1470, 1500, 1529, 1559, 1590,
       1620, 1651, 1683, 1714, 1746, 1779, 1812, 1845, 1878, 1912, 1946, 1981, 2016, 2051, 2086, 2122,
       2159, 2195, 2232, 2270, 2307, 2346, 2384, 2423, 2462, 2502, 2542, 2582, 2623, 2664, 2705, 2747,
       2789, 2831, 2874, 2918, 2961, 3005, 3050, 3095, 3140, 3185, 3231, 3278, 3325, 3372, 3419, 3467,
       3515, 3564, 3613, 3663, 3712, 3763, 3813, 3864, 3916, 3968, 4020, 4072, 4125, 4179, 4233, 4287,
       4342, 4397, 4452, 4508, 4564, 4621, 4678, 4735, 4793, 4851, 4910, 4969, 5029, 5089, 5149, 5210,
       5271, 5333, 5395, 5457, 5520, 5583, 5647, 5711, 5776, 5841, 5906, 5972, 6038, 6105, 6172, 6240,
       6308, 6376, 6445, 6514, 6584, 6654, 6724, 6795, 6867, 6939, 7011, 7084, 7157, 7231, 7305, 7379,
       7454, 7529, 7605, 7682, 7758, 7835, 7913, 7991, 8070, 8148, 8228, 8308, 8388, 8469, 8550, 8632,
       8714, 8796, 8879, 8963, 9047, 9131, 9216, 9301, 9387, 9473, 9560, 9647, 9734, 9823, 9911, 10000 >>

\* torch.pow((rgb + 0.055) / 1.055, 2.4), rgb in units of 1/RGB_ONE
GammaPow(v) ==
    LET k == clip(v \div 40, 0, 255)
        frac == v - 40 * k
    IN  IF k = 255 THEN GammaTable[256]
        ELSE GammaTable[k + 1] + ((GammaTable[k + 2] - GammaTable[k + 1]) * frac) \div 40

\* torch.where(rgb > 0.04045, pow(...), rgb / 12.92)
srgb_to_linear(v) ==
    IF v * 100000 > 4045 * RGB_ONE THEN GammaPow(v) ELSE (v * 10000) \div 131784

\* torch.pow(t, 1/3): the largest c with (c / F_ONE)^3 <= t / LIN_ONE
RECURSIVE CubeRootSearch(_, _, _)
CubeRootSearch(x, lo, hi) ==
    IF lo = hi THEN lo
    ELSE LET mid == (lo + hi + 1) \div 2
         IN  IF mid * mid * mid <= x THEN CubeRootSearch(x, mid, hi)
             ELSE CubeRootSearch(x, lo, mid - 1)

cbrt(t) == CubeRootSearch(t * 100000, 0, 1200)

\* transform_matrix, in 1/100000
transform_matrix == << <<41246, 35758, 18044>>,
                       <<21267, 71515,  7218>>,
                       << 1933, 11919, 95030>> >>

\* white_point (D65), in 1/LIN_ONE
white_point == <<9505, 10000, 10888>>

\* torch.where(xyz_normalized > epsilon, pow(t, 1/3), (kappa * t + 16) / 116)
\* with epsilon = 0.008856 and kappa = 903.3
lab_f(t) ==
    IF t * 100 > 8856 THEN cbrt(t) ELSE (9033 * t + 1600000) \div 11600

\* rgb_to_lab(rgb): rgb a triple in units of 1/RGB_ONE; the result in thousandths
rgb_to_lab(rgb) ==
    LET linear == [c \in 1..3 |-> srgb_to_linear(rgb[c])]
        xyz == [i \in 1..3 |->
                  (  linear[1] * transform_matrix[i][1]
                   + linear[2] * transform_matrix[i][2]
                   + linear[3] * transform_matrix[i][3]) \div 100000]
        xyz_normalized == [i \in 1..3 |-> (xyz[i] * LIN_ONE) \div white_point[i]]
        f == [i \in 1..3 |-> lab_f(xyz_normalized[i])]
    IN  [L |-> 116 * f[2] - 16 * F_ONE,
         a |-> 500 * (f[1] - f[2]),
         b |-> 200 * (f[2] - f[3])]


\* inverse_transform, in 1/LIN_ONE
inverse_transform == << << 32405, -15371, -4985>>,
                        << -9693,  18760,   416>>,
                        <<   556,  -2040, 10572>> >>

\* the largest k in lo..hi with GammaTable[k + 1] <= x (GammaTable increases)
RECURSIVE GammaSearch(_, _, _)
GammaSearch(x, lo, hi) ==
    IF lo = hi THEN lo
    ELSE LET mid == (lo + hi + 1) \div 2
         IN  IF GammaTable[mid + 1] <= x THEN GammaSearch(x, mid, hi)
             ELSE GammaSearch(x, lo, mid - 1)

\* 1.055 * torch.pow(linear, 1/2.4) - 0.055 in units of 1/RGB_ONE: the inverse
\* of GammaPow, read off the same table
GammaRoot(x) ==
    LET k == GammaSearch(x, 0, 255)
    IN  IF k = 255 THEN RGB_ONE + (x - GammaTable[256])
        ELSE 40 * k + (40 * (x - GammaTable[k + 1])) \div (GammaTable[k + 2] - GammaTable[k + 1])

\* torch.where(linear > 0.0031308, 1.055 * pow(linear, 1/2.4) - 0.055, 12.92 * linear)
linear_to_srgb(x) ==
    IF x * 1000 > 31308 THEN GammaRoot(x) ELSE (x * 13178) \div 1000

\* lab_to_rgb(lab): lab in thousandths; the result in units of 1/RGB_ONE,
\* clamped to [0, 1]
lab_to_rgb(lab) ==
    LET fy == (lab.L + 16 * F_ONE) \div 116
        fx == lab.a \div 500 + fy
        fz == fy - lab.b \div 200
        fx3 == fx * fx * fx
        fz3 == fz * fz * fz
        xr == IF fx3 > 8856000 THEN fx3 \div 100000 ELSE ((116 * fx - 16 * F_ONE) * 100) \div 9033
        yr == IF lab.L * 10000 > 79996248 THEN (fy * fy * fy) \div 100000
              ELSE (lab.L * 100) \div 9033
        zr == IF fz3 > 8856000 THEN fz3 \div 100000 ELSE ((116 * fz - 16 * F_ONE) * 100) \div 9033
        xyz == << (xr * white_point[1]) \div LIN_ONE,
                  (yr * white_point[2]) \div LIN_ONE,
                  (zr * white_point[3]) \div LIN_ONE >>
        linear == [i \in 1..3 |->
                     (  xyz[1] * inverse_transform[i][1]
                      + xyz[2] * inverse_transform[i][2]
                      + xyz[3] * inverse_transform[i][3]) \div LIN_ONE]
    IN  [c \in 1..3 |-> clip(linear_to_srgb(linear[c]), 0, RGB_ONE)]

(***************************************************************************)
(* Colour conversion at eight decimals, for the round trip                 *)
(* rgb_to_lab / lab_to_rgb of generate_textures.py.  RGB, linear RGB, XYZ  *)
(* and f(t) are integer multiples of 1/ONE8, Lab values of 1/LAB8_ONE.     *)
(* Products of two such numbers do not fit 32 bits and are formed from     *)
(* four-digit halves.                                                      *)
(***************************************************************************)
ONE8 == 10000 * 10000
LAB8_ONE == 1000 * 10000

Abs(x) == IF x < 0 THEN -x ELSE x

\* a * b / ONE8, rounded toward zero
mul8(a, b) ==
    LET x == Abs(a)
        y == Abs(b)
        x1 == x \div 10000
        x0 == x % 10000
        y1 == y \div 10000
        y0 == y % 10000
        mag == x1 * y1 + (x1 * y0 + x0 * y1 + (x0 * y0) \div 10000) \div 10000
    IN  IF (a < 0) = (b < 0) THEN mag ELSE -mag

\* the first d decimal digits of r / w, for 0 <= r < w
RECURSIVE long_div(_, _, _)
long_div(r, w, d) ==
    IF d = 0 THEN 0
    ELSE ((r * 10) \div w) * (10 ^ (d - 1)) + long_div((r * 10) % w, w, d - 1)

\* a / w in units of 1/ONE8, for a >= 0 and w > 0
div8(a, w) == (a \div w) * ONE8 + long_div(a % w, w, 8)

\* x ** 3
cube8(f) == mul8(mul8(f, f), f)

\* torch.pow(t, 1/3): the largest c with c ** 3 <= t
RECURSIVE CubeRootSearch8(_, _, _)
CubeRootSearch8(t, lo, hi) ==
    IF lo = hi THEN lo
    ELSE LET mid == (lo + hi + 1) \div 2
         IN  IF cube8(mid) <= t THEN CubeRootSearch8(t, mid, hi)
             ELSE CubeRootSearch8(t, lo, mid - 1)

cbrt8(t) == CubeRootSearch8(t, 0, 2 * ONE8)

\* the byte k as an RGB value: k / 255
rgb8(k) == ((k * 1000000) \div 255) * 100 + (((k * 1000000) % 255) * 100) \div 255

\* ONE8 * ((k/255 + 0.055) / 1.055) ^ 2.4 for the bytes k = 0..255
GammaTable8 ==
    <<
       83381, 98368, 114819, 132772, 152264, 173331, 196007, 220325,
       246318, 274017, 303452, 334654, 367651, 402472, 439144, 477695,
       518152, 560539, 604883, 651209, 699541, 749903, 802319, 856813,
       913406, 972122, 1032982, 1096009, 1161225, 1228649, 1298303, 1370208,
       1444384, 1520851, 1599629, 1680738, 1764195, 1850022, 1938236, 2028856,
       2121901, 2217388, 2315337, 2415763, 2518686, 2624122, 2732089, 2842604,
       2955683, 3071344, 3189603, 3310477, 3433981, 3560131, 3688945, 3820437,
       3954624, 4091520, 4231141, 4373503, 4518620, 4666509, 4817182, 4970657,
       5126946, 5286065, 5448028, 5612849, 5780543, 5951124, 6124605, 6301002,
       6480327, 6662594, 6847817, 7036010, 7227185, 7421357, 7618538, 7818742,
       8021982, 8228271, 8437621, 8650046, 8865559, 9084171, 9305896, 9530747,
       9758735, 9989873, 10224173, 10461648, 10702310, 10946171, 11193243, 11443537,
       11697067, 11953843, 12213877, 12477182, 12743768, 13013648, 13286832, 13563333,
       13843162, 14126329, 14412847, 14702727, 14995979, 15292615, 15592646, 15896084,
       16202938, 16513219, 16826940, 17144110, 17464740, 17788842, 18116424, 18447499,
       18782077, 19120168, 19461783, 19806932, 20155625, 20507874, 20863687, 21223076,
       21586050, 21952620, 22322796, 22696587, 23074005, 23455058, 23839757, 24228112,
       24620133, 25015828, 25415209, 25818285, 26225066, 26635560, 27049779, 27467731,
       27889426, 28314874, 28744084, 29177065, 29613827, 30054379, 30498731, 30946892,
       31398871, 31854678, 32314321, 32777810, 33245154, 33716362, 34191442, 34670406,
       35153260, 35640014, 36130678, 36625260, 37123768, 37626212, 38132601, 38642943,
       39157248, 39675523, 40197778, 40724021, 41254261, 41788507, 42326767, 42869050,
       43415364, 43965717, 44520119, 45078578, 45641102, 46207700, 46778380, 47353150,
       47932018, 48514994, 49102085, 49693300, 50288646, 50888132, 51491767, 52099557,
       52711513, 53327640, 53947949, 54572446, 55201140, 55834039, 56471151, 57112483,
       57758044, 58407842, 59061884, 59720179, 60382734, 61049557, 61720656, 62396039,
       63075714, 63759687, 64447968, 65140564, 65837482, 66538730, 67244316, 67954247,
       68668531, 69387176, 70110189, 70837578, 71569350, 72305513, 73046074, 73791041,
       74540421, 75294222, 76052450, 76815115, 77582222, 78353779, 79129794, 79910274,
       80695226, 81484657, 82278575, 83076988, 83879901, 84687323, 85499261, 86315721,
       87136712, 87962240, 88792312, 89626935, 90466117, 91309865, 92158186, 93011086,
       93868573, 94730654, 95597335, 96468625, 97344529, 98225055, 99110210, 100000000 >>

\* torch.where(rgb > 0.04045, pow((rgb + 0.055) / 1.055, 2.4), rgb / 12.92) at
\* the byte k
srgb_to_linear_8(k) ==
    IF k * 100000 > 4045 * 255 THEN GammaTable8[k + 1] ELSE (rgb8(k) * 100) \div 1292

\* transform_matrix
transform_matrix_8 == << <<41245640, 35757610, 18043750>>,
                         <<21267290, 71515220,  7217500>>,
                         << 1933390, 11919200, 95030410>> >>

\* white_point (D65)
white_point_8 == <<95047000, 100000000, 108883000>>

\* torch.where(xyz_normalized > epsilon, pow(t, 1/3), (kappa * t + 16) / 116)
lab_f_8(t) ==
    IF t > 885600 THEN cbrt8(t)
    ELSE LET n == (903 * t + (3 * t) \div 10) \div 10 + 16 * LAB8_ONE
         IN  (n \div 116) * 10 + ((n % 116) * 10) \div 116

\* rgb_to_lab(rgb) for a triple of bytes; L, a, b in units of 1/LAB8_ONE
rgb_to_lab_8(p) ==
    LET linear == [c \in 1..3 |-> srgb_to_linear_8(p[c])]
        xyz == [i \in 1..3 |->
                    mul8(linear[1], transform_matrix_8[i][1])
                  + mul8(linear[2], transform_matrix_8[i][2])
                  + mul8(linear[3], transform_matrix_8[i][3])]
        xyz_normalized == [i \in 1..3 |-> div8(xyz[i], white_point_8[i])]
        f == [i \in 1..3 |-> lab_f_8(xyz_normalized[i])]
    IN  [L |-> 11 * f[2] + (6 * f[2]) \div 10 - 16 * LAB8_ONE,
         a |-> 50 * (f[1] - f[2]),
         b |-> 20 * (f[2] - f[3])]

\* torch.where(f**3 > epsilon, f**3, (116.0 * f - 16.0) / kappa)
lab_f_inv_8(f) ==
    IF cube8(f) > 885600 THEN cube8(f)
    ELSE LET n == 116 * (f \div 10) - 16 * LAB8_ONE
         IN  (n \div 9033) * 100 + ((n % 9033) * 100) \div 9033

\* a plausible slip: the matrix used without .T
inverse_transform_8_transposed == << <<324045420,  -96926600,   5564340>>,
                                     <<-153713850, 187601080, -20402590>>,
                                     <<-49853140,    4155600, 105722520>> >>

\* inverse_transform
inverse_transform_8 == << <<324045420, -153713850, -49853140>>,
                          <<-96926600,  187601080,   4155600>>,
                          <<  5564340,  -20402590, 105722520>> >>

\* the largest k in lo..hi with GammaTable8[k + 1] <= x
RECURSIVE GammaSearch8(_, _, _)
GammaSearch8(x, lo, hi) ==
    IF lo = hi THEN lo
    ELSE LET mid == (lo + hi + 1) \div 2
         IN  IF GammaTable8[mid + 1] <= x THEN GammaSearch8(x, mid, hi)
             ELSE GammaSearch8(x, lo, mid - 1)

\* 1.055 * torch.pow(linear, 1/2.4) - 0.055: GammaTable8 read backwards, linear
\* between two neighbouring bytes
GammaRoot8(x) ==
    LET k == GammaSearch8(x, 0, 255)
    IN  IF k = 255 THEN rgb8(255) + (x - GammaTable8[256])
        ELSE rgb8(k) + mul8(rgb8(k + 1) - rgb8(k),
                            div8(x - GammaTable8[k + 1],
                                 GammaTable8[k + 2] - GammaTable8[k + 1]))

\* torch.where(linear > 0.0031308, 1.055 * pow(linear, 1/2.4) - 0.055, 12.92 * linear)
linear_to_srgb_8(x) ==
    IF x > 313080 THEN GammaRoot8(x)
    ELSE 12 * x + 92 * (x \div 100) + (92 * (x % 100)) \div 100

\* lab_to_rgb(lab), the result clamped to [0, 1]
lab_to_rgb_8(lab) ==
    LET s == lab.L + 16 * LAB8_ONE
        fy == (s \div 116) * 10 + ((s % 116) * 10) \div 116
        fx == lab.a \div 50 + fy
        fz == fy - lab.b \div 20
        xr == lab_f_inv_8(fx)
        yr == IF lab.L > 79996248 THEN cube8(fy)
              ELSE (lab.L \div 9033) * 100 + ((lab.L % 9033) * 100) \div 9033
        zr == lab_f_inv_8(fz)
        xyz == << mul8(xr, white_point_8[1]), mul8(yr, white_point_8[2]),
                  mul8(zr, white_point_8[3]) >>
        linear == [i \in 1..3 |->
                       mul8(xyz[1], inverse_transform_8[i][1])
                     + mul8(xyz[2], inverse_transform_8[i][2])
                     + mul8(xyz[3], inverse_transform_8[i][3])]
    IN  [c \in 1..3 |-> clip(linear_to_srgb_8(linear[c]), 0, ONE8)]

(***************************************************************************)
(* Uniform-cube bin index                                                  *)
(***************************************************************************)
\* np.clip(np.floor(L_norm * bins).astype(np.int32), 0, bins - 1), L_norm = L / 100
uniform_L_bin(L, bins) == clip((L * bins) \div (100 * F_ONE), 0, bins - 1)

\* np.clip(np.floor(a_norm * bins).astype(np.int32), 0, bins - 1),
\* a_norm = (a + 128.0) / 255.0; the same for b
uniform_ab_bin(v, bins) == clip(((v + 128 * F_ONE) * bins) \div (255 * F_ONE), 0, bins - 1)

\* a plausible slip: the clip to [0, bins - 1] left out
lab_bin_index_noclip(L, a, b, bins) ==
      (L * bins) \div (100 * F_ONE)
    + (((a + 128 * F_ONE) * bins) \div (255 * F_ONE)) * bins
    + (((b + 128 * F_ONE) * bins) \div (255 * F_ONE)) * (bins * bins)

\* generate_textures.lab_bin_index(L, a, b, bins)
lab_bin_index(L, a, b, bins) ==
      uniform_L_bin(L, bins)
    + uniform_ab_bin(a, bins) * bins
    + uniform_ab_bin(b, bins) * (bins * bins)

\* the composite of generate_bins.lab_bin_index: L_bin + a_bin * bins + b_bin * (bins ** 2)
composite_index(L_bin, a_bin, b_bin, bins) == L_bin + a_bin * bins + b_bin * (bins * bins)

\* a plausible slip: bins for bins ** 2 in the last term
lab_bin_index_gb_flat(L, a, b, bins) ==
    LET L_bin == uniform_L_bin(L, bins)
        a_bin == uniform_ab_bin(a, bins)
        b_bin == uniform_ab_bin(b, bins)
    IN  <<L_bin, a_bin, b_bin, L_bin + a_bin * bins + b_bin * bins>>

\* generate_bins.lab_bin_index(L, a, b, bins): (L_bin, a_bin, b_bin, index)
lab_bin_index_gb(L, a, b, bins) ==
    LET L_bin == uniform_L_bin(L, bins)
        a_bin == uniform_ab_bin(a, bins)
        b_bin == uniform_ab_bin(b, bins)
    IN  <<L_bin, a_bin, b_bin, L_bin + a_bin * bins + b_bin * (bins * bins)>>

\* bin_label(L_bin, a_bin, b_bin)
bin_label(L_bin, a_bin, b_bin) == <<"L", L_bin, "a", a_bin, "b", b_bin>>

(***************************************************************************)
(* One enumerated point and its bucket entry                               *)
(***************************************************************************)
\* r_batch = r_flat[...].astype(np.float32) / 255.0, stacked: rgb_batch[i]
rgb_norm(p) == [c \in 1..3 |-> (p[c] * RGB_ONE) \div 255]

\* the Lab of every lattice point, as rgb_to_lab(rgb_tensor) yields it
lab_of == [p \in Lattice |-> rgb_to_lab(rgb_norm(p))]

\* {'rgb': rgb_batch[i], 'L': L_batch[i], 'a': a_batch[i], 'b': b_batch[i]}
point_entry(p) ==
    [rgb |-> rgb_norm(p), L |-> lab_of[p].L, a |-> lab_of[p].a, b |-> lab_of[p].b]

\* bin_indices[i] of the point in compute_bin_representatives (the first pass)
enumeration_bin_index(p, bins) ==
    lab_bin_index(lab_of[p].L, lab_of[p].a, lab_of[p].b, bins)

\* a plausible slip in the second pass: a_batch and b_batch handed over swapped
texture_bin_index_swapped(p, bins) ==
    lab_bin_index(lab_of[p].L, lab_of[p].b, lab_of[p].a, bins)

\* bin_indices[i] of the point in build_rgb_texture (the second pass)
texture_bin_index(p, bins) ==
    lab_bin_index(lab_of[p].L, lab_of[p].a, lab_of[p].b, bins)

(***************************************************************************)
(* Representative policies                                                 *)
(***************************************************************************)
RECURSIVE SumSeq(_, _)
SumSeq(s, i) == IF i > Len(s) THEN 0 ELSE s[i] + SumSeq(s, i + 1)

\* np.mean(list)
mean(s) == SumSeq(s, 1) \div Len(s)

\* a plausible slip: the mean taken over the RGB triples instead of the Lab ones
average_rgb_mean(points) ==
    [c \in 1..3 |-> mean([i \in 1..Len(points) |-> points[i].rgb[c]])]

\* avg_L, avg_a, avg_b: the mean of each Lab channel over the bucket
average_lab(points) ==
    [L |-> mean([i \in 1..Len(points) |-> points[i].L]),
     a |-> mean([i \in 1..Len(points) |-> points[i].a]),
     b |-> mean([i \in 1..Len(points) |-> points[i].b])]

\* method == 'average': the mean Lab converted back with lab_to_rgb
average(points) == lab_to_rgb(average_lab(points))

\* min(points, key=lambda p: p['L']): the scan keeps the first of equal keys
RECURSIVE min_scan(_, _, _)
min_scan(points, i, best) ==
    IF i > Len(points) THEN best
    ELSE min_scan(points, i + 1, IF points[i].L < best.L THEN points[i] ELSE best)

\* max(points, key=lambda p: p['L']): the scan keeps the first of equal keys
RECURSIVE max_scan(_, _, _)
max_scan(points, i, best) ==
    IF i > Len(points) THEN best
    ELSE max_scan(points, i + 1, IF points[i].L > best.L THEN points[i] ELSE best)

\* a plausible slip: <= for <, which keeps the last of equal keys
RECURSIVE min_scan_last(_, _, _)
min_scan_last(points, i, best) ==
    IF i > Len(points) THEN best
    ELSE min_scan_last(points, i + 1, IF points[i].L <= best.L THEN points[i] ELSE best)

darkest_last(points) == min_scan_last(points, 2, points[1]).rgb

\* a plausible slip: >= for >, which keeps the last of equal keys
RECURSIVE max_scan_last(_, _, _)
max_scan_last(points, i, best) ==
    IF i > Len(points) THEN best
    ELSE max_scan_last(points, i + 1, IF points[i].L >= best.L THEN points[i] ELSE best)

brightest_last(points) == max_scan_last(points, 2, points[1]).rgb

\* method == 'darkest'
darkest(points) == min_scan(points, 2, points[1]).rgb

\* method == 'brightest'
brightest(points) == max_scan(points, 2, points[1]).rgb

\* the if / elif chain over `method`; an unknown name reaches the else: raise
KnownMethod(method) == method \in {"average", "darkest", "brightest"}

representative(points, method) ==
    CASE method = "average" -> average(points)
      [] method = "darkest" -> darkest(points)
      [] method = "brightest" -> brightest(points)

\* np.ones((total_bins, 3)): white
\* (texture * 255).astype(np.uint8) for one colour: the bytes of a float RGB
to_uint8(rgb) == [c \in 1..3 |-> (rgb[c] * 255) \div RGB_ONE]

\* a plausible slip: np.zeros for np.ones, which makes the default black
zeros_row == <<0, 0, 0>>

\* a row of np.ones((total_bins, 3)): white
white == <<RGB_ONE, RGB_ONE, RGB_ONE>>


(***************************************************************************)
(* Batching of the flat lattice                                            *)
(***************************************************************************)
\* a plausible slip: floor for ceiling, which drops a last partial batch
num_batches_floor(total, bs) == total \div bs

\* a plausible slip: each batch starts on the last point of the one before
start_idx_overlap(idx, bs) == Max(0, idx * bs - 1)

\* num_batches = (total_points + batch_size - 1) // batch_size
num_batches(total, bs) == (total + bs - 1) \div bs

\* start_idx = batch_idx * batch_size
start_idx(idx, bs) == idx * bs

\* a plausible slip: the slice end one short, which drops a point per batch
end_idx_short(start, bs, total) == Min(start + bs - 1, total)

\* end_idx = min(start_idx + batch_size, total_points)
end_idx(start, bs, total) == Min(start + bs, total)

\* the flat indices start..(end - 1), in order: the slice [start:end]
RECURSIVE slice(_, _)
slice(start, end) == IF start >= end THEN <<>> ELSE <<start>> \o slice(start + 1, end)

(***************************************************************************)
(* Fixed-step bin index and colour conversion of the classification        *)
(* scripts (plain Python floats)                                           *)
(***************************************************************************)
\* rgb_to_xyz(r, g, b): bytes in, XYZ in units of 1/LIN_ONE of the 0..1 range
\* (the script scales by 100 and divides by the white point scaled by 100)
rgb_to_xyz(r, g, b) ==
    LET lr == srgb_to_linear(r * 40)
        lg == srgb_to_linear(g * 40)
        lb == srgb_to_linear(b * 40)
    IN  << (lr * 41246 + lg * 35758 + lb * 18044) \div 100000,
           (lr * 21267 + lg * 71515 + lb *  7218) \div 100000,
           (lr *  1933 + lg * 11919 + lb * 95030) \div 100000 >>

\* f = lambda t: t ** (1/3) if t > 0.008856 else (7.787 * t + 16/116)
xyz_f(t) == IF t * 100 > 8856 THEN cbrt(t) ELSE (7787 * t + 1379310) \div 10000

\* xyz_to_lab(x, y, z), in thousandths
xyz_to_lab(xyz) ==
    LET fx == xyz_f((xyz[1] * LIN_ONE) \div 9505)
        fy == xyz_f((xyz[2] * LIN_ONE) \div 10000)
        fz == xyz_f((xyz[3] * LIN_ONE) \div 10888)
    IN  [L |-> 116 * fy - 16 * F_ONE, A |-> 500 * (fx - fy), B |-> 200 * (fy - fz)]

\* rgb_to_lab(r, g, b) of build_texture.py, calculate_probabilities.py, test_python.py
rgb_to_lab_bytes(r, g, b) == xyz_to_lab(rgb_to_xyz(r, g, b))

\* x // 5 on floats, then int(): floor division
floordiv5(x) == x \div (5 * F_ONE)

\* a plausible slip: int(x / 5), which truncates toward zero
truncdiv5(x) == IF x >= 0 THEN x \div (5 * F_ONE) ELSE -((-x) \div (5 * F_ONE))

\* the clamped per-axis bins of calculate_lab_index: (L_bin, A_bin, B_bin)
lab_axis_bins(L, A, B) ==
    <<clip(floordiv5(L), 0, 19), clip(floordiv5(A) + 21, 0, 41), clip(floordiv5(B) + 21, 0, 41)>>

\* index = L_bin + 20 * A_bin + 20 * 42 * B_bin
lab_composite_index(L_bin, A_bin, B_bin) == L_bin + 20 * A_bin + 20 * 42 * B_bin

\* calculate_probabilities.calculate_lab_index, from the Lab value on
lab_index_calc(L, A, B) ==
    LET L_bin == clip(floordiv5(L), 0, 19)
        A_bin == clip(floordiv5(A) + 21, 0, 41)
        B_bin == clip(floordiv5(B) + 21, 0, 41)
    IN  L_bin + 20 * A_bin + 20 * 42 * B_bin

\* a plausible slip in build_texture's copy: truncation for floor
lab_index_texture_trunc(L, A, B) ==
    LET L_bin == Max(0, Min(19, truncdiv5(L)))
        A_bin == Max(0, Min(41, truncdiv5(A) + 21))
        B_bin == Max(0, Min(41, truncdiv5(B) + 21))
    IN  L_bin + 20 * A_bin + 20 * 42 * B_bin

\* build_texture.py, the index computed inside the loop
lab_index_texture(L, A, B) ==
    LET L_bin == Max(0, Min(19, floordiv5(L)))
        A_bin == Max(0, Min(41, floordiv5(A) + 21))
        B_bin == Max(0, Min(41, floordiv5(B) + 21))
    IN  L_bin + 20 * A_bin + 20 * 42 * B_bin

\* test_python.py, the index computed per test colour
lab_index_test_python(L, A, B) ==
    LET L_bin == Max(0, Min(19, floordiv5(L)))
        A_bin == Max(0, Min(41, floordiv5(A) + 21))
        B_bin == Max(0, Min(41, floordiv5(B) + 21))
    IN  L_bin + 20 * A_bin + 20 * 42 * B_bin

\* np.floor(x / 5) of test_comparison.py
np_floor_div5(x) == x \div (5 * F_ONE)

\* test_comparison.py: int(np.floor(L / 5)), int(np.floor(A / 5) + 21), ...
lab_index_test_comparison(L, A, B) ==
    LET L_bin == Max(0, Min(19, np_floor_div5(L)))
        A_bin == Max(0, Min(41, np_floor_div5(A) + 21))
        B_bin == Max(0, Min(41, np_floor_div5(B) + 21))
    IN  L_bin + 20 * A_bin + 20 * 42 * B_bin

\* calculate_lab_index(r, g, b)
calculate_lab_index(r, g, b) ==
    LET lab == rgb_to_lab_bytes(r, g, b) IN lab_index_calc(lab.L, lab.A, lab.B)

(***************************************************************************)
(* build_texture.py: the colour table, the matrix and the name list        *)
(***************************************************************************)
\* COLOR_RGB_VALUES ('dark purple' is written twice, with the same value)
COLOR_RGB_VALUES ==
    "black" :> <<0, 0, 0>> @@ "brown" :> <<139, 69, 19>> @@ "blue" :> <<0, 0, 255>> @@
    "grey" :> <<128, 128, 128>> @@ "green" :> <<0, 255, 0>> @@
    "orange" :> <<255, 165, 0>> @@ "pink" :> <<255, 192, 203>> @@
    "purple" :> <<128, 0, 128>> @@ "red" :> <<255, 0, 0>> @@
    "white" :> <<255, 255, 255>> @@ "yellow" :> <<255, 255, 0>> @@
    "turquoise" :> <<64, 224, 208>> @@ "olive green" :> <<85, 107, 47>> @@
    "mint green" :> <<152, 255, 152>> @@ "maroon" :> <<128, 0, 0>> @@
    "lavender" :> <<230, 230, 250>> @@ "magenta" :> <<255, 0, 255>> @@
    "salmon" :> <<250, 128, 114>> @@ "cyan" :> <<0, 255, 255>> @@
    "rose" :> <<255, 0, 127>> @@ "dark green" :> <<0, 100, 0>> @@
    "pale yellow" :> <<255, 255, 153>> @@ "beige" :> <<245, 245, 220>> @@
    "lilac" :> <<200, 162, 200>> @@ "olive" :> <<128, 128, 0>> @@
    "fuchsia" :> <<255, 0, 255>> @@ "mustard" :> <<255, 219, 88>> @@
    "mauve" :> <<224, 176, 255>> @@ "dark purple" :> <<48, 25, 52>> @@
    "ochre" :> <<204, 119, 34>> @@ "light blue" :> <<173, 216, 230>> @@
    "lime green" :> <<50, 205, 50>> @@ "light green" :> <<144, 238, 144>> @@
    "peach" :> <<255, 229, 180>> @@ "teal" :> <<0, 128, 128>> @@
    "violet" :> <<143, 0, 255>> @@ "burgundy" :> <<128, 0, 32>> @@
    "tan" :> <<210, 180, 140>>

\* color_rgb_array: one row per loaded name, black for a name the table lacks
color_rgb_array(names) ==
    [i \in 1..Len(names) |->
       IF names[i] \in DOMAIN COLOR_RGB_VALUES THEN COLOR_RGB_VALUES[names[i]]
       ELSE <<0, 0, 0>>]

\* a plausible slip: >= for >, which keeps the last of several largest entries
RECURSIVE argmax_scan_last(_, _, _)
argmax_scan_last(probs, i, best) ==
    IF i > Len(probs) THEN best
    ELSE argmax_scan_last(probs, i + 1, IF probs[i] >= probs[best] THEN i ELSE best)

argmax_last(probs) == argmax_scan_last(probs, 2, 1) - 1

\* np.argmax(probs): the first index (from 0) of a largest entry
RECURSIVE argmax_scan(_, _, _)
argmax_scan(probs, i, best) ==
    IF i > Len(probs) THEN best
    ELSE argmax_scan(probs, i + 1, IF probs[i] > probs[best] THEN i ELSE best)

argmax(probs) == argmax_scan(probs, 2, 1) - 1

\* enumerate(probs): the pairs (index from 0, probability)
enumerate(probs) == [i \in 1..Len(probs) |-> <<i - 1, probs[i]>>]

\* one pair put into a list sorted by falling probability, behind every pair
\* that is not smaller: equal pairs keep their order (the sort is stable, also
\* with reverse=True)
RECURSIVE insert_desc(_, _, _)
insert_desc(sorted, pair, i) ==
    IF i > Len(sorted) \/ sorted[i][2] < pair[2]
    THEN SubSeq(sorted, 1, i - 1) \o <<pair>> \o SubSeq(sorted, i, Len(sorted))
    ELSE insert_desc(sorted, pair, i + 1)

\* sorted(pairs, key=lambda x: x[1], reverse=True)
RECURSIVE sorted_reverse(_, _, _)
sorted_reverse(pairs, i, acc) ==
    IF i > Len(pairs) THEN acc
    ELSE sorted_reverse(pairs, i + 1, insert_desc(acc, pairs[i], 1))

\* test_python.py: top3 = sorted_colors[:3]
top3(probs) == SubSeq(sorted_reverse(enumerate(probs), 1, <<>>), 1, Min(3, Len(probs)))

\* the fixed-step indices the sampled lattice reaches
LatticeIndices == {calculate_lab_index(p[1], p[2], p[3]) : p \in Lattice}

\* name lists tried as the content of cn39.txt: as many names as a row has
\* weights (one list with a name COLOR_RGB_VALUES lacks), one name fewer, one more
NameLists ==
    { <<"black", "grey", "white">>, <<"red", "green", "blue">>,
      <<"red", "crimson", "blue">>, <<"black", "white">>,
      <<"black", "grey", "white", "red">> }

\* a row of weights for a bin: the weights 50, 30, 20 turned by the index, and
\* two equal largest weights for every fifth index
matrix_row(index) ==
    IF index % 5 = 0 THEN <<40, 40, 20>>
    ELSE [n \in 1..3 |-> <<50, 30, 20>>[((n + index) % 3) + 1]]

\* matrices tried as the content of w2c39.txt: a line for every reached bin, for
\* the even ones only, for none, and a line for every reached bin with every
\* third one all zeros
Matrices ==
    { [index \in S |-> matrix_row(index)] :
        S \in {LatticeIndices, {i \in LatticeIndices : i % 2 = 0}, {}} }
    \cup { [index \in LatticeIndices |->
               IF index % 3 = 0 THEN <<0, 0, 0>> ELSE matrix_row(index)] }

\* a plausible slip: the zeros the texture starts with left in place of the
\* input colour when the matrix has no row for the bin
texture_entry_zero(p, data, names) ==
    LET lab == rgb_to_lab_bytes(p[1], p[2], p[3])
        index == lab_index_texture(lab.L, lab.A, lab.B)
    IN  IF index \in DOMAIN data
        THEN color_rgb_array(names)[argmax(data[index]) + 1]
        ELSE <<0, 0, 0>>

\* color_rgb_array[max_idx] raises IndexError: the row's largest weight stands
\* at a position for which no name was loaded
texture_entry_raises(p, data, names) ==
    LET lab == rgb_to_lab_bytes(p[1], p[2], p[3])
        index == lab_index_texture(lab.L, lab.A, lab.B)
    IN  index \in DOMAIN data /\ argmax(data[index]) >= Len(names)

\* the body of the innermost loop: the value stored at texture[r, g, b]
texture_entry(p, data, names) ==
    LET lab == rgb_to_lab_bytes(p[1], p[2], p[3])
        index == lab_index_texture(lab.L, lab.A, lab.B)
    IN  IF index \in DOMAIN data
        THEN color_rgb_array(names)[argmax(data[index]) + 1]
        ELSE p

\* get_color_probabilities(r, g, b, color_data): color_data.get(index, None)
get_color_probabilities(p, data) ==
    LET index == calculate_lab_index(p[1], p[2], p[3])
    IN  IF index \in DOMAIN data THEN data[index] ELSE None

\* color_names[max_idx] raises IndexError in apply_matrix_to_pixel
apply_matrix_raises(p, data, names) ==
    LET probs == get_color_probabilities(p, data)
    IN  probs # None /\ argmax(probs) >= Len(names)

\* apply_matrix_to_pixel(r, g, b, color_data, color_names)
apply_matrix_to_pixel(p, data, names) ==
    LET probs == get_color_probabilities(p, data)
    IN  IF probs = None THEN p
        ELSE LET color_name == names[argmax(probs) + 1]
             IN  IF color_name \in DOMAIN COLOR_RGB_VALUES
                 THEN COLOR_RGB_VALUES[color_name]
                 ELSE p

\* batch_size = 16 of build_texture.py
r_batch_size_const == 16

(***************************************************************************)
(* convert_mat.py: the matrix file written from the MATLAB matrix, and the *)
(* loader that reads it back                                               *)
(***************************************************************************)
\* 1.0 of a printed probability: f'{p:.6f}' keeps six decimals
PRINT_ONE == 1000 * 1000

\* f'{p:.6f}' of p = w / d, in millionths, rounded to the nearest
format_6f(w, d) == (2 * w * PRINT_ONE + d) \div (2 * d)

\* a plausible slip: an all-zero row spread evenly instead of left alone
normalized_probs_even(probs_array) ==
    IF SumSeq(probs_array, 1) > 0
    THEN [n \in 1..Len(probs_array) |-> format_6f(probs_array[n], SumSeq(probs_array, 1))]
    ELSE [n \in 1..Len(probs_array) |-> format_6f(1, Len(probs_array))]

\* prob_sum = probs_array.sum(); probs_array / prob_sum if prob_sum > 0, else
\* probs_array itself; as printed on the line
normalized_probs(probs_array) ==
    IF SumSeq(probs_array, 1) > 0
    THEN [n \in 1..Len(probs_array) |-> format_6f(probs_array[n], SumSeq(probs_array, 1))]
    ELSE [n \in 1..Len(probs_array) |-> format_6f(probs_array[n], 1)]

\* for index in range(data.shape[0]): f.write(f'{index} {probs}\n'), from row
\* index on
RECURSIVE write_lines(_, _)
write_lines(data, index) ==
    IF index >= Len(data) THEN <<>>
    ELSE <<[index |-> index, probs |-> normalized_probs(data[index + 1])]>>
            \o write_lines(data, index + 1)

\* load_color_data: color_data[index] = probs for every line, a later line
\* replacing an earlier one of the same index
RECURSIVE load_color_data(_, _)
load_color_data(lines, acc) ==
    IF lines = <<>> THEN acc
    ELSE load_color_data(Tail(lines),
            [i \in DOMAIN acc \cup {Head(lines).index} |->
                IF i = Head(lines).index THEN Head(lines).probs ELSE acc[i]])

(***************************************************************************)
(* calculate_probabilities.py: load_color_names, and the same loop written *)
(* out in build_texture.py.  A line is a sequence of characters.           *)
(***************************************************************************)
\* the characters str.strip() removes
Whitespace == {" "}

\* line.strip(chars): the characters of `chars` removed from both ends
RECURSIVE strip(_, _)
strip(line, chars) ==
    IF line = <<>> THEN line
    ELSE IF Head(line) \in chars THEN strip(Tail(line), chars)
    ELSE IF line[Len(line)] \in chars THEN strip(SubSeq(line, 1, Len(line) - 1), chars)
    ELSE line

\* '.' in line
has_dot(line) == \E n \in 1..Len(line) : line[n] = "."

\* line.split('.', 1)[1]: what follows the first '.'
RECURSIVE split_dot_1(_)
split_dot_1(line) ==
    IF Head(line) = "." THEN Tail(line) ELSE split_dot_1(Tail(line))

\* load_color_names: the loop over the lines of the file
RECURSIVE load_color_names(_)
load_color_names(lines) ==
    IF lines = <<>> THEN <<>>
    ELSE LET line == strip(Head(lines), Whitespace)
         IN  IF line # <<>>
             THEN LET stripped == strip(line, {"'", ","})
                  IN  <<IF has_dot(stripped) THEN split_dot_1(stripped) ELSE stripped>>
                         \o load_color_names(Tail(lines))
             ELSE load_color_names(Tail(lines))

\* build_texture.py, lines 94-105: the same loop in the script
RECURSIVE load_color_names_inline(_)
load_color_names_inline(lines) ==
    IF lines = <<>> THEN <<>>
    ELSE LET line == strip(Head(lines), Whitespace)
         IN  IF line # <<>>
             THEN LET stripped == strip(line, {"'", ","})
                  IN  <<IF has_dot(stripped) THEN split_dot_1(stripped) ELSE stripped>>
                         \o load_color_names_inline(Tail(lines))
             ELSE load_color_names_inline(Tail(lines))

\* lines tried in cn39.txt: blank, bare, quoted, numbered, a name with a '.' of
\* its own, punctuation only
NameLines ==
    { <<>>,
      <<" ">>,
      <<"r", "e", "d">>,
      <<"'", "r", "e", "d", "'", ",">>,
      <<"1", ".", "r", "e", "d">>,
      <<"'", "2", ".", "r", "e", "d", "'", ",">>,
      <<" ", "'", "3", ".", "r", "e", "d", "'", ",", " ">>,
      <<"1", "2", ".", "r", "e", "d">>,
      <<"s", "t", ".", "r", "e", "d">>,
      <<"'", "1", ".", "a", ".", "b", "'", ",">>,
      <<"'", ",">>,
      <<"'", ".", "'", ",">> }

\* files of up to two lines
NameFiles == {<<>>} \cup {<<x>> : x \in NameLines} \cup {<<x, y>> : x \in NameLines, y \in NameLines}

(***************************************************************************)
(* Inputs of the single function calls                                     *)
(***************************************************************************)
\* bytes handed to the round trip: the ends, the middle, and the two bytes
\* around the 0.04045 switch of the gamma curve
RoundTripBytes == {0, 1, 10, 11, 128, 254, 255}

\* Lab values handed to lab_to_rgb, most of them outside the sRGB gamut
OutOfGamutLab ==
    { [L |-> l * LAB8_ONE, a |-> a * LAB8_ONE, b |-> b * LAB8_ONE] :
        l \in {0, 50, 100}, a \in {-80, 0, 80}, b \in {-80, 0, 80} }

\* rows of the MATLAB matrix: non-negative weights, an all-zero row among them
SourceRows == { <<0, 0, 0>>, <<1, 1, 1>>, <<3, 0, 0>>, <<1, 2, 0>>, <<2, 3, 2>>, <<0, 5, 5>> }

\* matrices handed to convert_mat: one or two rows
SourceMatrices == {<<x>> : x \in SourceRows} \cup {<<x, y>> : x \in SourceRows, y \in SourceRows}

\* Lab values handed to lab_bin_index, in thousandths: inside, on the edges of,
\* and outside the nominal ranges
UniformLProbe == {-5000, 0, 33333, 33334, 50000, 99999, 100000, 120000}
UniformAProbe == {-140000, -128000, -43001, -43000, 0, 42000, 127000, 140000}
UniformBProbe == {-128001, -500, 127000, 127001}

\* Lab values handed to the fixed-step index
FixedLProbe == {-1, 0, 4999, 5000, 53241, 99999, 100000, 104000}
FixedAProbe == {-105001, -100001, -100000, -5000, -4999, -1, 0, 4999, 5000, 99999,
                100000, 104999, 105000}
FixedBProbe == {-107860, -1, 0, 67203, 110000}

\* probability rows handed to the top-1 choice: every row of three of the weights
ProbRows == [1..3 -> {10, 40, 50}]

\* bucket entries handed to the policies: two colours, two L, two a, one b
SyntheticEntries ==
    { [rgb |-> rgb_norm(c), L |-> l, a |-> a, b |-> -10000] :
        c \in {<<10, 10, 10>>, <<200, 200, 200>>}, l \in {2742, 80604},
        a \in {-20000, 30000} }

RECURSIVE SeqsUpTo(_, _)
SeqsUpTo(S, n) ==
    IF n = 0 THEN {<<>>}
    ELSE LET shorter == SeqsUpTo(S, n - 1)
         IN  shorter \cup {Append(q, x) : q \in shorter, x \in S}

SyntheticBuckets == SeqsUpTo(SyntheticEntries, MaxBucket) \ {<<>>}

(***************************************************************************)
(* State                                                                   *)
(***************************************************************************)
VARIABLES
    prog,             \* the script or function that runs
    pc,               \* where it is
    bins,             \* argument `bins`
    method,           \* argument `method`
    batch_size,       \* the local batch_size
    color_data,       \* build_texture: dict index -> probabilities
    color_names,      \* build_texture: the loaded names
    arg,              \* the arguments of a single function call
    batch_idx,        \* the loop variable batch_idx (build_texture: r_batch, main: i)
    walked,           \* the loop positions handled so far by the running loop, in order
    bin_points,       \* compute_bin_representatives: bin index -> list of entries
    bin_data,         \* analyze_bins: dict bin index -> record
    representatives,  \* array (total_bins, 3)
    texture,          \* array indexed [r, g, b]
    ret,              \* what the call returned
    evaluated,        \* the bins whose bucket was handed to an aggregation policy
    js_format,        \* generate_textures.py: JS_FORMAT, read when the exports begin
    buffer,           \* save_as_binary: the bytes object texture_uint8.tobytes('C')
    files,            \* the file system: path -> content
    log,              \* what was printed, in order
    img_array,        \* recolor_image: the input pixels, img_array[y][x]
    output_array,     \* recolor_image: the output pixels
    comparison_paths, \* generate_all_tests.main: the list handed to compile_to_pdf
    original_path,    \* generate_all_tests.main: what the download of image i returned
    recolored_path,   \* generate_all_tests.main: what the recoloring of image i returned
    attempted         \* generate_all_tests.main: the steps called so far, <<i, step, succeeded>>

\* what a run is given; no step changes it
input_vars == <<prog, bins, method, batch_size, color_data, color_names, arg>>
\* exports, files and images
io_vars == <<js_format, buffer, files, log, img_array, output_array>>
vars == <<prog, pc, bins, method, batch_size, color_data, color_names, arg, batch_idx,
          walked, bin_points, bin_data, representatives, texture, ret, evaluated,
          js_format, buffer, files, log, img_array, output_array,
          comparison_paths, original_path, recolored_path, attempted>>

\* the locals of generate_all_tests.main
suite_vars == <<comparison_paths, original_path, recolored_path, attempted>>

\* a program other than generate_all_tests.py has none of its locals
NoSuite ==
    /\ comparison_paths = None
    /\ original_path = None
    /\ recolored_path = None
    /\ attempted = <<>>

\* a program that neither reads nor writes files and images starts without them
NoIO ==
    /\ js_format = None
    /\ buffer = None
    /\ files = None
    /\ log = <<>>
    /\ img_array = None
    /\ output_array = None

\* the values JS_FORMAT may be given
JsFormats == {"bin", "png_slices", "png_atlas", "all"}

BatchSizes == (1..MaxBatch) \cup {batch_size_const}

total_bins(b) == b * b * b

(***************************************************************************)
(* generate_textures.py: compute_bin_representatives, build_rgb_texture    *)
(***************************************************************************)
InitGenerateTextures ==
    /\ prog = "generate_textures"
    /\ NoSuite
    /\ pc = "enumerate"
    /\ bins \in 1..MaxBins
    /\ method \in Methods \cup OtherMethods
    /\ batch_size \in BatchSizes
    /\ batch_idx = 0
    /\ walked = <<>>
    /\ bin_points = [i \in 0..(total_bins(bins) - 1) |-> <<>>]
    /\ bin_data = None
    /\ representatives = None
    /\ texture = None
    /\ color_data = None
    /\ color_names = None
    /\ arg = None
    /\ ret = None
    /\ evaluated = {}
    /\ js_format \in JsFormats
    /\ buffer = None
    /\ files = None
    /\ log = <<>>
    /\ img_array = None
    /\ output_array = None

\* for i, bin_idx in enumerate(bin_indices): bin_points[bin_idx].append({...})
RECURSIVE group_by_bin(_, _, _, _)
group_by_bin(bp, i, end, b) ==
    IF i >= end THEN bp
    ELSE LET p == PointAt(i)
             bin_idx == enumeration_bin_index(p, b)
         IN  group_by_bin([bp EXCEPT ![bin_idx] = Append(@, point_entry(p))], i + 1, end, b)

\* one pass of `for batch_idx in range(num_batches)` in compute_bin_representatives
EnumerateBatch ==
    /\ prog = "generate_textures"
    /\ pc = "enumerate"
    /\ LET start == start_idx(batch_idx, batch_size)
           end == end_idx(start, batch_size, total_points)
       IN  /\ bin_points' = group_by_bin(bin_points, start, end, bins)
           /\ walked' = walked \o slice(start, end)
    /\ batch_idx' = batch_idx + 1
    /\ pc' = IF batch_idx + 1 >= num_batches(total_points, batch_size)
             THEN "aggregate" ELSE "enumerate"
    /\ UNCHANGED <<suite_vars, input_vars, io_vars, evaluated, bin_data, representatives, texture,
                   ret>>

\* the loop `for bin_idx in range(total_bins)`: empty bins keep white; the first
\* occupied bin under an unknown method raises ValueError, which ends main
ComputeRepresentatives ==
    /\ prog = "generate_textures"
    /\ pc = "aggregate"
    /\ IF (\E k \in DOMAIN bin_points : Len(bin_points[k]) > 0) /\ ~KnownMethod(method)
       THEN /\ pc' = "failed"
            /\ UNCHANGED <<representatives, texture, batch_idx, walked, evaluated>>
       ELSE /\ representatives' =
                  [k \in DOMAIN bin_points |->
                     IF Len(bin_points[k]) = 0 THEN white
                     ELSE representative(bin_points[k], method)]
            /\ evaluated' = {k \in DOMAIN bin_points : Len(bin_points[k]) # 0}
            \* build_rgb_texture begins: texture = np.zeros((256, 256, 256, 3))
            /\ texture' = [p \in Lattice |-> <<0, 0, 0>>]
            /\ batch_idx' = 0
            /\ walked' = <<>>
            /\ pc' = "texture"
    /\ UNCHANGED <<suite_vars, input_vars, io_vars, bin_points, bin_data, ret>>

\* one pass of `for batch_idx in range(num_batches)` in build_rgb_texture:
\* texture[r_indices, g_indices, b_indices] = representatives[bin_indices]
TextureBatch ==
    /\ prog = "generate_textures"
    /\ pc = "texture"
    /\ LET start == start_idx(batch_idx, batch_size)
           end == end_idx(start, batch_size, total_points)
           batch == {PointAt(i) : i \in start..(end - 1)}
       IN  /\ texture' = [p \in Lattice |->
                            IF p \in batch THEN representatives[texture_bin_index(p, bins)]
                            ELSE texture[p]]
           /\ walked' = walked \o slice(start, end)
    /\ batch_idx' = batch_idx + 1
    /\ pc' = IF batch_idx + 1 >= num_batches(total_points, batch_size)
             THEN "built" ELSE "texture"
    /\ UNCHANGED <<suite_vars, input_vars, io_vars, evaluated, bin_points, bin_data, representatives,
                   ret>>

(***************************************************************************)
(* generate_textures.py: main after build_rgb_texture, the export functions *)
(***************************************************************************)
\* Image.fromarray(arr, 'RGB'): width the row length, height the row count,
\* the pixel at (x, y) the entry arr[y][x]
Image_fromarray(arr) ==
    [size |-> <<Len(arr[1]), Len(arr)>>,
     pixels |-> [xy \in (0..(Len(arr[1]) - 1)) \X (0..(Len(arr) - 1)) |->
                   arr[xy[2] + 1][xy[1] + 1]]]

\* output file names, f"..._bins{bins}_{method}..." (r is 0 but for slices)
export_path(name, b, m, r) == [name |-> name, bins |-> b, method |-> m, r |-> r]

\* texture_uint8[r, g, b] for array positions r, g, b: position k of an axis is
\* the byte vals[k]
texture_uint8(tex, r, g, b) == to_uint8(tex[<<vals[r], vals[g], vals[b]>>])

\* texture_uint8.tobytes('C'): the bytes of the points in C order, from point n on
RECURSIVE tobytes(_, _)
tobytes(tex, n) ==
    IF n >= total_points THEN <<>>
    ELSE to_uint8(tex[PointAt(n)]) \o tobytes(tex, n + 1)

\* slice_data = texture_uint8[r, :, :, :]: rows along g, columns along b
slice_data(tex, r) ==
    [g \in 1..Levels |-> [b \in 1..Levels |-> texture_uint8(tex, r, g - 1, b - 1)]]

\* the atlas has atlas_grid x atlas_grid tiles, enough for every slice (the
\* script: 16 x 16 tiles for 256 slices)
atlas_grid == CHOOSE n \in 1..Levels : n * n >= Levels /\ (n - 1) * (n - 1) < Levels

\* np.zeros((4096, 4096, 3), dtype=np.uint8)
atlas_zeros ==
    [y \in 1..(atlas_grid * Levels) |-> [x \in 1..(atlas_grid * Levels) |-> <<0, 0, 0>>]]

\* a plausible slip: every slice put in the first row of tiles
tile_of_first_row(r) == <<r % atlas_grid, 0>>

\* tile_x = r % 16, tile_y = r // 16
tile_of(r) == <<r % atlas_grid, r \div atlas_grid>>

\* for r in range(256): atlas[y_offset:y_offset+256, x_offset:x_offset+256, :] =
\* texture_uint8[r, :, :, :], from slice r on
RECURSIVE copy_slices(_, _, _)
copy_slices(atlas, tex, r) ==
    IF r >= Levels THEN atlas
    ELSE LET x_offset == tile_of(r)[1] * Levels
             y_offset == tile_of(r)[2] * Levels
             src == slice_data(tex, r)
         IN  copy_slices(
                 [y \in 1..Len(atlas) |-> [x \in 1..Len(atlas[y]) |->
                    IF /\ y - 1 \in y_offset..(y_offset + Levels - 1)
                       /\ x - 1 \in x_offset..(x_offset + Levels - 1)
                    THEN src[y - y_offset][x - x_offset]
                    ELSE atlas[y][x]]],
                 tex, r + 1)

\* the metadata save_as_png_atlas writes beside the atlas
atlas_metadata(b, m) ==
    [format |-> "png_atlas",
     dimensions |-> <<atlas_grid * Levels, atlas_grid * Levels>>,
     tile_size |-> Levels,
     grid_size |-> atlas_grid,
     bins |-> b,
     method |-> m,
     description |->
       "Access with: tile_x=r%16, tile_y=floor(r/16), pixel=(tile_x*256+g, tile_y*256+b)"]

\* the access the docstring of save_as_png_atlas and the metadata describe:
\* x = tile_x * 256 + g, y = tile_y * 256 + b
documented_atlas_pixel(r, g, b) ==
    <<(r % atlas_grid) * Levels + g, (r \div atlas_grid) * Levels + b>>

\* the access the docstring of save_as_png_slices describes: pixel at (g, b)
documented_slice_pixel(g, b) == <<g, b>>

\* save_as_binary when JS_FORMAT is 'bin' or 'all': tobytes returns a bytes
\* object, which has no tofile, so line 504 raises AttributeError before any
\* file is written
SaveAsBinary ==
    /\ prog = "generate_textures"
    /\ pc = "built"
    /\ IF js_format \in {"bin", "all"}
       THEN /\ buffer' = tobytes(texture, 0)
            /\ log' = log \o << <<"Saving as binary:", export_path("rgb_texture.bin", bins, method, 0)>>,
                                 <<"AttributeError: 'bytes' object has no attribute 'tofile'">> >>
            /\ pc' = "failed"
       ELSE /\ pc' = "save_slices"
            /\ UNCHANGED <<buffer, log>>
    /\ UNCHANGED <<suite_vars, input_vars, evaluated, batch_idx, walked, bin_points, bin_data,
                   representatives, texture, ret, js_format, files, img_array,
                   output_array>>

\* save_as_png_slices when JS_FORMAT is 'png_slices' or 'all'
SaveAsPngSlices ==
    /\ prog = "generate_textures"
    /\ pc = "save_slices"
    /\ IF js_format \in {"png_slices", "all"}
       THEN /\ files' =
                  LET slices == {export_path("slice.png", bins, method, r) :
                                   r \in 0..(Levels - 1)}
                  IN  [f \in DOMAIN files \cup slices |->
                         IF f \in slices THEN Image_fromarray(slice_data(texture, f.r))
                         ELSE files[f]]
            /\ log' = Append(log, <<"Saving as PNG slices:", Levels>>)
       ELSE UNCHANGED <<files, log>>
    /\ pc' = "save_atlas"
    /\ UNCHANGED <<suite_vars, input_vars, evaluated, batch_idx, walked, bin_points, bin_data,
                   representatives, texture, ret, js_format, buffer, img_array,
                   output_array>>

\* save_as_png_atlas when JS_FORMAT is 'png_atlas' or 'all'
SaveAsPngAtlas ==
    /\ prog = "generate_textures"
    /\ pc = "save_atlas"
    /\ IF js_format \in {"png_atlas", "all"}
       THEN /\ files' =
                  LET png == export_path("rgb_texture_atlas.png", bins, method, 0)
                      json == export_path("rgb_texture_atlas.json", bins, method, 0)
                  IN  [f \in DOMAIN files \cup {png, json} |->
                         IF f = png
                         THEN Image_fromarray(copy_slices(atlas_zeros, texture, 0))
                         ELSE IF f = json THEN atlas_metadata(bins, method)
                         ELSE files[f]]
            /\ log' = Append(log, <<"Saving as PNG atlas:",
                                    export_path("rgb_texture_atlas.png", bins, method, 0)>>)
       ELSE UNCHANGED <<files, log>>
    /\ pc' = "save_npy"
    /\ UNCHANGED <<suite_vars, input_vars, evaluated, batch_idx, walked, bin_points, bin_data,
                   representatives, texture, ret, js_format, buffer, img_array,
                   output_array>>

\* np.save(npy_path, texture), lines 713-716
SaveNpy ==
    /\ prog = "generate_textures"
    /\ pc = "save_npy"
    /\ files' =
          LET npy == export_path("rgb_texture.npy", bins, method, 0)
          IN  [f \in DOMAIN files \cup {npy} |-> IF f = npy THEN texture ELSE files[f]]
    /\ log' = Append(log, <<"Saving NumPy format:",
                            export_path("rgb_texture.npy", bins, method, 0)>>)
    /\ pc' = "done"
    /\ UNCHANGED <<suite_vars, input_vars, evaluated, batch_idx, walked, bin_points, bin_data,
                   representatives, texture, ret, js_format, buffer, img_array,
                   output_array>>

(***************************************************************************)
(* generate_bins.py: analyze_bins                                          *)
(***************************************************************************)
InitGenerateBins ==
    /\ prog = "generate_bins"
    /\ NoSuite
    /\ pc = "enumerate"
    /\ bins \in 1..MaxBins
    /\ method \in Methods \cup OtherMethods
    /\ batch_size \in BatchSizes
    /\ batch_idx = 0
    /\ walked = <<>>
    /\ bin_points = None
    \* bin_data = {}
    /\ bin_data = <<>>
    /\ representatives = None
    /\ texture = None
    /\ color_data = None
    /\ color_names = None
    /\ arg = None
    /\ ret = None
    /\ evaluated = {}
    /\ NoIO

\* for i, bin_idx in enumerate(bin_indices): create the record of a bin not seen
\* before, then append the point
RECURSIVE group_into_bin_data(_, _, _, _)
group_into_bin_data(bd, i, end, b) ==
    IF i >= end THEN bd
    ELSE LET p == PointAt(i)
             t == lab_bin_index_gb(lab_of[p].L, lab_of[p].a, lab_of[p].b, b)
             bin_idx == t[4]
             seen == IF bin_idx \in DOMAIN bd THEN bd
                     ELSE bd @@ (bin_idx :> [label |-> bin_label(t[1], t[2], t[3]),
                                             L_bin |-> t[1], a_bin |-> t[2],
                                             b_bin |-> t[3], points |-> <<>>])
         IN  group_into_bin_data(
                 [seen EXCEPT ![bin_idx].points = Append(@, point_entry(p))],
                 i + 1, end, b)

\* one pass of `for batch_idx in range(num_batches)` in analyze_bins
AnalyzeBatch ==
    /\ prog = "generate_bins"
    /\ pc = "enumerate"
    /\ LET start == start_idx(batch_idx, batch_size)
           end == end_idx(start, batch_size, total_points)
       IN  /\ bin_data' = group_into_bin_data(bin_data, start, end, bins)
           /\ walked' = walked \o slice(start, end)
    /\ batch_idx' = batch_idx + 1
    /\ pc' = IF batch_idx + 1 >= num_batches(total_points, batch_size)
             THEN "aggregate" ELSE "enumerate"
    /\ UNCHANGED <<suite_vars, input_vars, io_vars, evaluated, bin_points, representatives, texture,
                   ret>>

\* the loop `for bin_idx, data in bin_data.items()`: every bin of the dict is
\* occupied, so an unknown method raises at the first one
AnalyzeRepresentatives ==
    /\ prog = "generate_bins"
    /\ pc = "aggregate"
    /\ IF DOMAIN bin_data # {} /\ ~KnownMethod(method)
       THEN /\ pc' = "failed"
            /\ UNCHANGED <<bin_data, evaluated>>
       ELSE /\ bin_data' =
                  [k \in DOMAIN bin_data |->
                     [label |-> bin_data[k].label,
                      L_bin |-> bin_data[k].L_bin,
                      a_bin |-> bin_data[k].a_bin,
                      b_bin |-> bin_data[k].b_bin,
                      representative |-> representative(bin_data[k].points, method),
                      colors |-> [i \in 1..Len(bin_data[k].points) |->
                                    bin_data[k].points[i].rgb]]]
            /\ evaluated' = DOMAIN bin_data
            /\ pc' = "analyzed"
    /\ UNCHANGED <<suite_vars, input_vars, io_vars, batch_idx, walked, bin_points, representatives, texture,
                   ret>>

(***************************************************************************)
(* build_texture.py: the texture loop                                      *)
(***************************************************************************)
InitBuildTexture ==
    /\ prog = "build_texture"
    /\ NoSuite
    /\ pc = "build"
    /\ color_data \in Matrices
    /\ color_names \in NameLists
    /\ batch_size \in (1..MaxBatch) \cup {r_batch_size_const}
    \* texture = np.zeros((256, 256, 256, 3), dtype=np.uint8)
    /\ texture = [p \in Lattice |-> <<0, 0, 0>>]
    /\ batch_idx = 0
    /\ walked = <<>>
    /\ bins = 0
    /\ method = "argmax"
    /\ bin_points = None
    /\ bin_data = None
    /\ representatives = None
    /\ arg = None
    /\ ret = None
    /\ evaluated = {}
    /\ NoIO

\* one pass of `for r_batch in range(0, 256, batch_size)`: every r of
\* range(r_batch, r_end), every g and b
BuildTextureBatch ==
    /\ prog = "build_texture"
    /\ pc = "build"
    /\ LET r_end == Min(batch_idx + batch_size, Levels)
           rs == {vals[k] : k \in batch_idx..(r_end - 1)}
       IN  IF \E p \in Lattice :
                 p[1] \in rs /\ texture_entry_raises(p, color_data, color_names)
           THEN \* IndexError ends the script; the array it was filling is lost
                /\ pc' = "failed"
                /\ UNCHANGED <<texture, walked, batch_idx>>
           ELSE /\ texture' = [p \in Lattice |->
                                 IF p[1] \in rs
                                 THEN texture_entry(p, color_data, color_names)
                                 ELSE texture[p]]
                /\ walked' = walked \o slice(batch_idx, r_end)
                /\ batch_idx' = batch_idx + batch_size
                /\ pc' = IF batch_idx + batch_size >= Levels THEN "built" ELSE "build"
    /\ UNCHANGED <<suite_vars, input_vars, io_vars, evaluated, bin_points, bin_data, representatives,
                   ret>>

(***************************************************************************)
(* recolor_image.py                                                        *)
(***************************************************************************)
\* a path as os.path.splitext sees it: the parts of the base, and the extension
LutPath == [base |-> <<"texture/color_texture_256">>, ext |-> ".npy"]
InputPath == [base |-> <<"photo">>, ext |-> ".png"]

\* output_path = f"{base}_recolorized{ext}"
output_path_of(input_path) ==
    [base |-> input_path.base \o <<"_recolorized">>, ext |-> input_path.ext]

\* a plausible slip: the existence test left out
exists_always(fs, path) == TRUE

\* os.path.exists(path)
os_path_exists(fs, path) == path \in DOMAIN fs

\* a plausible slip: the channels read in the order b, g, r
recolor_pixel_bgr(lut, px) == lut[<<px[3], px[2], px[1]>>]

\* r, g, b = img_array[y, x]; output_array[y, x] = lut[r, g, b]
recolor_pixel(lut, px) == lut[<<px[1], px[2], px[3]>>]

\* a plausible slip: the recolored row written into the input array as well
recolor_row_in_place(lut, img, out, y) ==
    LET row == [x \in 1..Len(img[y + 1]) |-> recolor_pixel(lut, img[y + 1][x])]
    IN  [img_array |-> [img EXCEPT ![y + 1] = row],
         output_array |-> [out EXCEPT ![y + 1] = row]]

\* for x in range(width): r, g, b = img_array[y, x]; output_array[y, x] = lut[r, g, b]:
\* the two arrays after row y
recolor_row(lut, img, out, y) ==
    [img_array |-> img,
     output_array |->
        [out EXCEPT ![y + 1] =
            [x \in 1..Len(img[y + 1]) |-> recolor_pixel(lut, img[y + 1][x])]]]

\* np.array(img): rows of pixels, img_array[y][x] the pixel at (x, y)
np_array(img) ==
    [y \in 1..img.size[2] |-> [x \in 1..img.size[1] |-> img.pixels[<<x - 1, y - 1>>]]]

\* np.zeros_like(img_array)
zeros_like(arr) == [y \in 1..Len(arr) |-> [x \in 1..Len(arr[y]) |-> <<0, 0, 0>>]]

\* lookup tables tried as the content of the .npy file: what build_texture
\* builds from each matrix
Luts ==
    { [p \in Lattice |-> texture_entry(p, data, <<"red", "green", "blue">>)] :
        data \in Matrices }

\* pixel values of the input images
PixelProbe == { <<0, 127, 127>>, <<127, 0, 255>> }

\* RGB images of every size up to MaxWidth x MaxHeight
Images ==
    UNION { { [size |-> <<w, h>>, pixels |-> px] :
                px \in [(0..(w - 1)) \X (0..(h - 1)) -> PixelProbe] } :
            w \in 1..MaxWidth, h \in 1..MaxHeight }

\* the files recolor_image may find: the LUT or not, the input image or not
RecolorFileSystems ==
    { lut_part @@ img_part :
        lut_part \in {<<>>} \cup {LutPath :> l : l \in Luts},
        img_part \in {<<>>} \cup {InputPath :> i : i \in Images} }

InitRecolorImage ==
    /\ prog = "recolor_image"
    /\ NoSuite
    /\ pc = "load_lut"
    /\ arg = [input_path |-> InputPath, lut_path |-> LutPath]
    /\ files \in RecolorFileSystems
    /\ log = <<>>
    /\ texture = None
    /\ img_array = None
    /\ output_array = None
    /\ batch_idx = 0
    /\ walked = <<>>
    /\ ret = None
    /\ bins = 0
    /\ method = "none"
    /\ batch_size = 0
    /\ color_data = None
    /\ color_names = None
    /\ bin_points = None
    /\ bin_data = None
    /\ representatives = None
    /\ evaluated = {}
    /\ js_format = None
    /\ buffer = None

\* lines 28-35: the existence test, sys.exit(1) after the two messages, np.load
RecolorLoadLut ==
    /\ prog = "recolor_image"
    /\ pc = "load_lut"
    /\ IF ~os_path_exists(files, arg.lut_path)
       THEN /\ log' = log \o << <<"Loading color LUT from", arg.lut_path>>,
                                 <<"Error: LUT file not found at", arg.lut_path>>,
                                 <<"Please run build_texture.py first to generate the lookup table.">> >>
            /\ ret' = [exit_status |-> 1]
            /\ pc' = "exited"
            /\ UNCHANGED texture
       ELSE IF arg.lut_path \notin DOMAIN files
            THEN \* np.load raises FileNotFoundError
                 /\ log' = Append(log, <<"Loading color LUT from", arg.lut_path>>)
                 /\ pc' = "failed"
                 /\ UNCHANGED <<texture, ret>>
            ELSE /\ texture' = files[arg.lut_path]
                 /\ log' = log \o << <<"Loading color LUT from", arg.lut_path>>,
                                      <<"LUT loaded">> >>
                 /\ pc' = "load_image"
                 /\ UNCHANGED ret
    /\ UNCHANGED <<suite_vars, prog, bins, method, batch_size, color_data, color_names, arg, batch_idx,
                   walked, bin_points, bin_data, representatives, evaluated, js_format,
                   buffer, files, img_array, output_array>>

\* lines 38-54: the existence test of the input, Image.open(...).convert('RGB'),
\* np.array, np.zeros_like
RecolorLoadImage ==
    /\ prog = "recolor_image"
    /\ pc = "load_image"
    /\ IF ~os_path_exists(files, arg.input_path)
       THEN /\ log' = log \o << <<"Loading input image", arg.input_path>>,
                                 <<"Error: Input file not found:", arg.input_path>> >>
            /\ ret' = [exit_status |-> 1]
            /\ pc' = "exited"
            /\ UNCHANGED <<img_array, output_array>>
       ELSE IF arg.input_path \notin DOMAIN files
            THEN \* Image.open raises FileNotFoundError
                 /\ log' = Append(log, <<"Loading input image", arg.input_path>>)
                 /\ pc' = "failed"
                 /\ UNCHANGED <<img_array, output_array, ret>>
            ELSE /\ img_array' = np_array(files[arg.input_path])
                 /\ output_array' = zeros_like(np_array(files[arg.input_path]))
                 /\ log' = log \o << <<"Loading input image", arg.input_path>>,
                                      <<"Image size:", files[arg.input_path].size>>,
                                      <<"Recoloring image...">> >>
                 /\ pc' = "recolor"
                 /\ UNCHANGED ret
    /\ UNCHANGED <<suite_vars, prog, bins, method, batch_size, color_data, color_names, arg, batch_idx,
                   walked, bin_points, bin_data, representatives, evaluated, js_format,
                   buffer, files, texture>>

\* one pass of `for y in range(height)`: every x of the row
RecolorRow ==
    /\ prog = "recolor_image"
    /\ pc = "recolor"
    /\ LET y == batch_idx
       IN  /\ output_array' = recolor_row(texture, img_array, output_array, y).output_array
           /\ img_array' = recolor_row(texture, img_array, output_array, y).img_array
           /\ log' = IF y % 100 = 0 THEN Append(log, <<"Progress:", y>>) ELSE log
           /\ walked' = Append(walked, y)
           /\ batch_idx' = y + 1
           /\ pc' = IF y + 1 >= Len(img_array) THEN "save" ELSE "recolor"
    /\ UNCHANGED <<suite_vars, prog, bins, method, batch_size, color_data, color_names, arg,
                   bin_points, bin_data, representatives, evaluated, js_format, buffer,
                   files, texture, ret>>

\* lines 64-78: Image.fromarray, the output path, save, return
RecolorSave ==
    /\ prog = "recolor_image"
    /\ pc = "save"
    /\ LET output_path == output_path_of(arg.input_path)
       IN  /\ files' = [f \in DOMAIN files \cup {output_path} |->
                          IF f = output_path THEN Image_fromarray(output_array)
                          ELSE files[f]]
           /\ log' = log \o << <<"Progress: 100.0%">>,
                                <<"Saving recolored image to", output_path>>,
                                <<"Done! Output saved to:", output_path>> >>
           /\ ret' = output_path
    /\ pc' = "returned"
    /\ UNCHANGED <<suite_vars, prog, bins, method, batch_size, color_data, color_names, arg, batch_idx,
                   walked, bin_points, bin_data, representatives, evaluated, js_format,
                   buffer, texture, img_array, output_array>>

(***************************************************************************)
(* recolor_image.py: several recolorings that share one loaded LUT, their  *)
(* per-pixel steps (lines 60-62) interleaved                               *)
(***************************************************************************)
Readers == {1, 2}

\* the input arrays of the readers: one row or one column of pixels
SharedImages ==
    { np_array(img) : img \in { i \in Images : i.size \in {<<MaxWidth, 1>>, <<1, MaxHeight>>} } }

\* width * height of an array
num_pixels(arr) == Len(arr) * Len(arr[1])

\* a plausible slip: one output array for all readers
output_of_shared(i) == 1

\* output_array is a local of each call
output_of(i) == i

\* the whole loop of lines 55-62 from row y on: the output of a recoloring
\* that runs alone
RECURSIVE recolor_rows(_, _, _, _)
recolor_rows(lut, img, out, y) ==
    IF y >= Len(img) THEN out
    ELSE recolor_rows(lut, img, recolor_row(lut, img, out, y).output_array, y + 1)

InitRecolorShared ==
    /\ prog = "recolor_shared"
    /\ NoSuite
    /\ pc = "recolor"
    /\ arg \in [lut : Luts, images : [Readers -> SharedImages]]
    /\ texture = arg.lut
    /\ img_array = arg.images
    /\ output_array = [i \in Readers |-> zeros_like(arg.images[i])]
    /\ batch_idx = [i \in Readers |-> 0]
    /\ walked = <<>>
    /\ files = None
    /\ log = <<>>
    /\ ret = None
    /\ bins = 0
    /\ method = "none"
    /\ batch_size = 0
    /\ color_data = None
    /\ color_names = None
    /\ bin_points = None
    /\ bin_data = None
    /\ representatives = None
    /\ evaluated = {}
    /\ js_format = None
    /\ buffer = None

\* reader i does its next pixel: r, g, b = img_array[y, x];
\* output_array[y, x] = lut[r, g, b]
RecolorPixel(i) ==
    /\ prog = "recolor_shared"
    /\ pc = "recolor"
    /\ batch_idx[i] < num_pixels(img_array[i])
    /\ LET width == Len(img_array[i][1])
           y == batch_idx[i] \div width
           x == batch_idx[i] % width
       IN  output_array' =
              [output_array EXCEPT ![output_of(i)][y + 1][x + 1] =
                  recolor_pixel(texture, img_array[i][y + 1][x + 1])]
    /\ batch_idx' = [batch_idx EXCEPT ![i] = @ + 1]
    /\ pc' = IF \A j \in Readers : batch_idx'[j] >= num_pixels(img_array[j])
             THEN "returned" ELSE "recolor"
    /\ UNCHANGED <<suite_vars, prog, bins, method, batch_size, color_data, color_names, arg, walked,
                   bin_points, bin_data, representatives, evaluated, js_format, buffer,
                   files, log, texture, img_array, ret>>

(***************************************************************************)
(* Single function calls                                                   *)
(***************************************************************************)
InitCall ==
    /\ prog = "call"
    /\ NoSuite
    /\ pc = "call"
    /\ \/ arg \in [fn : {"lab_bin_index"}, L : UniformLProbe, a : UniformAProbe,
                   b : UniformBProbe, bins : 1..MaxBins]
       \/ arg \in [fn : {"lab_index"}, L : FixedLProbe, A : FixedAProbe, B : FixedBProbe]
       \/ arg \in [fn : {"representative"}, points : SyntheticBuckets,
                   method : Methods \cup OtherMethods]
       \/ arg \in [fn : {"top1"}, probs : ProbRows]
       \/ arg \in [fn : {"apply_matrix_to_pixel"}, pixel : Lattice, color_data : Matrices,
                   color_names : NameLists]
       \/ arg \in [fn : {"convert_mat"}, data : SourceMatrices]
       \/ arg \in [fn : {"round_trip"},
                   rgb : RoundTripBytes \X RoundTripBytes \X RoundTripBytes]
       \/ arg \in [fn : {"lab_to_rgb"}, lab : OutOfGamutLab]
       \/ arg \in [fn : {"load_color_names"}, lines : NameFiles]
    /\ bins = 0
    /\ method = "none"
    /\ batch_size = 0
    /\ batch_idx = 0
    /\ walked = <<>>
    /\ bin_points = None
    /\ bin_data = None
    /\ representatives = None
    /\ texture = None
    /\ color_data = None
    /\ color_names = None
    /\ ret = None
    /\ evaluated = {}
    /\ NoIO

\* lab_bin_index(L, a, b, bins) of generate_textures.py and of generate_bins.py
CallLabBinIndex ==
    /\ prog = "call"
    /\ pc = "call"
    /\ arg.fn = "lab_bin_index"
    /\ ret' = [textures |-> lab_bin_index(arg.L, arg.a, arg.b, arg.bins),
               bins |-> lab_bin_index_gb(arg.L, arg.a, arg.b, arg.bins)]
    /\ pc' = "returned"
    /\ UNCHANGED <<suite_vars, input_vars, io_vars, evaluated, batch_idx, walked, bin_points, bin_data,
                   representatives, texture>>

\* the fixed-step index of the four scripts, for one Lab value
CallLabIndex ==
    /\ prog = "call"
    /\ pc = "call"
    /\ arg.fn = "lab_index"
    /\ ret' = [calculate_lab_index |-> lab_index_calc(arg.L, arg.A, arg.B),
               build_texture |-> lab_index_texture(arg.L, arg.A, arg.B),
               test_python |-> lab_index_test_python(arg.L, arg.A, arg.B),
               test_comparison |-> lab_index_test_comparison(arg.L, arg.A, arg.B)]
    /\ pc' = "returned"
    /\ UNCHANGED <<suite_vars, input_vars, io_vars, evaluated, batch_idx, walked, bin_points, bin_data,
                   representatives, texture>>

\* the if / elif chain of the representative loop on one bucket
CallRepresentative ==
    /\ prog = "call"
    /\ pc = "call"
    /\ arg.fn = "representative"
    /\ IF KnownMethod(arg.method)
       THEN /\ ret' = representative(arg.points, arg.method)
            /\ pc' = "returned"
       ELSE /\ ret' = None
            /\ pc' = "failed"
    /\ UNCHANGED <<suite_vars, input_vars, io_vars, evaluated, batch_idx, walked, bin_points, bin_data,
                   representatives, texture>>

\* the index of the chosen name for one probability row: np.argmax in
\* build_texture.py and apply_matrix_to_pixel, top3[0][0] in test_python.py
CallTop1 ==
    /\ prog = "call"
    /\ pc = "call"
    /\ arg.fn = "top1"
    /\ ret' = [build_texture |-> argmax(arg.probs),
               apply_matrix_to_pixel |-> argmax(arg.probs),
               test_python |-> top3(arg.probs)[1][1]]
    /\ pc' = "returned"
    /\ UNCHANGED <<suite_vars, input_vars, io_vars, evaluated, batch_idx, walked, bin_points, bin_data,
                   representatives, texture>>

\* apply_matrix_to_pixel(r, g, b, color_data, color_names)
CallApplyMatrix ==
    /\ prog = "call"
    /\ pc = "call"
    /\ arg.fn = "apply_matrix_to_pixel"
    /\ IF apply_matrix_raises(arg.pixel, arg.color_data, arg.color_names)
       THEN /\ ret' = None
            /\ pc' = "failed"
       ELSE /\ ret' = apply_matrix_to_pixel(arg.pixel, arg.color_data, arg.color_names)
            /\ pc' = "returned"
    /\ UNCHANGED <<suite_vars, input_vars, io_vars, evaluated, batch_idx, walked, bin_points, bin_data,
                   representatives, texture>>

\* lab_to_rgb(rgb_to_lab(rgb)) for one colour
CallRoundTrip ==
    /\ prog = "call"
    /\ pc = "call"
    /\ arg.fn = "round_trip"
    /\ ret' = [lab |-> rgb_to_lab_8(arg.rgb), rgb |-> lab_to_rgb_8(rgb_to_lab_8(arg.rgb))]
    /\ pc' = "returned"
    /\ UNCHANGED <<suite_vars, input_vars, io_vars, evaluated, batch_idx, walked, bin_points, bin_data,
                   representatives, texture>>

\* lab_to_rgb(lab) for one Lab value
CallLabToRgb ==
    /\ prog = "call"
    /\ pc = "call"
    /\ arg.fn = "lab_to_rgb"
    /\ ret' = lab_to_rgb_8(arg.lab)
    /\ pc' = "returned"
    /\ UNCHANGED <<suite_vars, input_vars, io_vars, evaluated, batch_idx, walked, bin_points, bin_data,
                   representatives, texture>>

\* load_color_names(names_path) and the loader of build_texture.py on one file
CallLoadColorNames ==
    /\ prog = "call"
    /\ pc = "call"
    /\ arg.fn = "load_color_names"
    /\ ret' = [calculate_probabilities |-> load_color_names(arg.lines),
               build_texture |-> load_color_names_inline(arg.lines)]
    /\ pc' = "returned"
    /\ UNCHANGED <<suite_vars, input_vars, io_vars, evaluated, batch_idx, walked, bin_points, bin_data,
                   representatives, texture>>

\* convert_mat.py writes w2c39.txt from data; load_color_data reads it back
CallConvertMat ==
    /\ prog = "call"
    /\ pc = "call"
    /\ arg.fn = "convert_mat"
    /\ ret' = [lines |-> write_lines(arg.data, 0),
               color_data |-> load_color_data(write_lines(arg.data, 0), None)]
    /\ pc' = "returned"
    /\ UNCHANGED <<suite_vars, input_vars, io_vars, evaluated, batch_idx, walked, bin_points, bin_data,
                   representatives, texture>>

(***************************************************************************)
(* Specification                                                           *)
(***************************************************************************)
(***************************************************************************)
(* testing/generate_all_tests.py: main                                     *)
(***************************************************************************)
\* the number of images of a run (NUM_IMAGES is 15 in the script)
MaxImages == 3
NUM_IMAGES == MaxImages

TEST_IMAGES_DIR == "test_images"
COMPARISONS_DIR == "comparisons"
OUTPUT_PDF == [base |-> <<"all_comparisons">>, ext |-> ".pdf"]

\* the table that main looks for, and the one recolor_image.py opens when it
\* is started from the same working directory
SuiteLutPath == [base |-> <<"..", "texture/color_texture_256">>, ext |-> ".npy"]

\* filepath = os.path.join(TEST_IMAGES_DIR, f"test_{index:02d}.jpg")
test_image_path(index) == [base |-> <<TEST_IMAGES_DIR, "test_", index>>, ext |-> ".jpg"]

\* base, ext = os.path.splitext(input_path); f"{base}_recolorized{ext}"
recolored_path_of(input_path) ==
    [base |-> input_path.base \o <<"_recolorized">>, ext |-> input_path.ext]

\* os.path.join(COMPARISONS_DIR, f"comparison_{i:02d}.png")
comparison_path_of(index) ==
    [base |-> <<COMPARISONS_DIR, "comparison_", index>>, ext |-> ".png"]

\* the file system with one more file
write_file(fs, path, content) ==
    [f \in DOMAIN fs \cup {path} |-> IF f = path THEN content ELSE fs[f]]

\* how a subprocess of recolor_image and create_comparison may end: exit
\* status 0 with the output written, a non-zero status (CalledProcessError),
\* or status 0 without the output file
Outcomes == {"ok", "error", "missing"}

\* the file systems a run may start in
SuiteFileSystems ==
    { lut_part @@ cwd_part :
        lut_part \in {<<>>, SuiteLutPath :> "lut"},
        cwd_part \in {<<>>, LutPath :> "lut"} }

\* a plausible slip: break for continue after a failed download
after_download_break(path) == IF path = None THEN "compile" ELSE "recolor"

\* if not original_path: continue
after_download(path) == IF path = None THEN "next_image" ELSE "recolor"

\* if not recolored_path: continue
after_recolor(path) == IF path = None THEN "next_image" ELSE "compare"

\* the head of `for i in range(1, NUM_IMAGES + 1)`
loop_head(index) == IF index > NUM_IMAGES THEN "compile" ELSE "download"

\* where main goes on after a step of image index
goes_to(target, index) == IF target = "next_image" THEN loop_head(index + 1) ELSE target

InitGenerateAllTests ==
    /\ prog = "generate_all_tests"
    /\ pc = "check"
    /\ files \in SuiteFileSystems
    /\ comparison_paths = None
    /\ original_path = None
    /\ recolored_path = None
    /\ attempted = <<>>
    /\ batch_idx = 0
    /\ log = <<>>
    /\ walked = <<>>
    /\ ret = None
    /\ bins = 0
    /\ method = "none"
    /\ batch_size = 0
    /\ arg = None
    /\ color_data = None
    /\ color_names = None
    /\ bin_points = None
    /\ bin_data = None
    /\ representatives = None
    /\ texture = None
    /\ evaluated = {}
    /\ js_format = None
    /\ buffer = None
    /\ img_array = None
    /\ output_array = None

suite_rest == <<prog, bins, method, batch_size, color_data, color_names, arg, walked,
                bin_points, bin_data, representatives, texture, ret, evaluated, js_format,
                buffer, img_array, output_array>>

\* lines 192-198: the dependency check, sys.exit(1) or comparison_paths = []
SuiteCheckLut ==
    /\ prog = "generate_all_tests"
    /\ pc = "check"
    /\ IF ~os_path_exists(files, SuiteLutPath)
       THEN /\ log' = Append(log, <<"Error: Color lookup table not found!">>)
            /\ pc' = "exit"
            /\ UNCHANGED <<comparison_paths, batch_idx>>
       ELSE /\ comparison_paths' = <<>>
            /\ batch_idx' = 1
            /\ pc' = loop_head(1)
            /\ UNCHANGED log
    /\ UNCHANGED <<suite_rest, files, original_path, recolored_path, attempted>>

\* original_path = download_lorem_picsum_image(i, ...): the path of the saved
\* file, or None when the request, the decoding or the save raised
SuiteDownload ==
    /\ prog = "generate_all_tests"
    /\ pc = "download"
    /\ \E ok \in BOOLEAN :
          LET path == IF ok THEN test_image_path(batch_idx) ELSE None
          IN  /\ original_path' = path
              /\ files' = IF ok THEN write_file(files, path, "jpg") ELSE files
              /\ attempted' = Append(attempted, <<batch_idx, "download", ok>>)
              /\ pc' = goes_to(after_download(path), batch_idx)
              /\ batch_idx' = IF after_download(path) = "next_image"
                              THEN batch_idx + 1 ELSE batch_idx
    /\ UNCHANGED <<suite_rest, log, comparison_paths, recolored_path>>

\* recolored_path = recolor_image(original_path): recolor_image.py is run on the
\* path; it exits with status 1 when its table or its input is missing
SuiteRecolor ==
    /\ prog = "generate_all_tests"
    /\ pc = "recolor"
    /\ \E outcome \in Outcomes :
          /\ outcome = "ok" =>
                /\ os_path_exists(files, LutPath)
                /\ os_path_exists(files, original_path)
          /\ outcome = "missing" => os_path_exists(files, LutPath)
          /\ LET after == IF outcome = "ok"
                          THEN write_file(files, output_path_of(original_path), "jpg")
                          ELSE files
                 path == IF /\ outcome # "error"
                            /\ os_path_exists(after, recolored_path_of(original_path))
                         THEN recolored_path_of(original_path) ELSE None
             IN  /\ recolored_path' = path
                 /\ files' = after
                 /\ attempted' = Append(attempted, <<batch_idx, "recolor", outcome = "ok">>)
                 /\ pc' = goes_to(after_recolor(path), batch_idx)
                 /\ batch_idx' = IF after_recolor(path) = "next_image"
                                 THEN batch_idx + 1 ELSE batch_idx
    /\ UNCHANGED <<suite_rest, log, comparison_paths, original_path>>

\* lines 216-221: create_comparison and the append
SuiteCompare ==
    /\ prog = "generate_all_tests"
    /\ pc = "compare"
    /\ \E outcome \in Outcomes :
          LET comparison_path == comparison_path_of(batch_idx)
              after == IF outcome = "ok" THEN write_file(files, comparison_path, "png")
                       ELSE files
              result_path == IF outcome # "error" /\ os_path_exists(after, comparison_path)
                             THEN comparison_path ELSE None
          IN  /\ files' = after
              /\ comparison_paths' = IF result_path # None
                                     THEN Append(comparison_paths, result_path)
                                     ELSE comparison_paths
              /\ attempted' = Append(attempted, <<batch_idx, "compare", outcome = "ok">>)
    /\ batch_idx' = batch_idx + 1
    /\ pc' = loop_head(batch_idx + 1)
    /\ UNCHANGED <<suite_rest, log, original_path, recolored_path>>

\* compile_to_pdf(comparison_paths, OUTPUT_PDF): nothing for an empty list,
\* else one page per path, or the message of the except branch
SuiteCompile ==
    /\ prog = "generate_all_tests"
    /\ pc = "compile"
    /\ IF comparison_paths = <<>>
       THEN /\ log' = Append(log, <<"No comparison images to compile">>)
            /\ UNCHANGED files
       ELSE \E ok \in BOOLEAN :
               IF ok
               THEN /\ files' = write_file(files, OUTPUT_PDF, comparison_paths)
                    /\ log' = Append(log, <<"PDF created", Len(comparison_paths)>>)
               ELSE /\ log' = Append(log, <<"Error creating PDF">>)
                    /\ UNCHANGED files
    /\ pc' = "done"
    /\ UNCHANGED <<suite_rest, batch_idx, comparison_paths, original_path, recolored_path,
                   attempted>>

Init ==
    \/ InitGenerateTextures
    \/ InitGenerateBins
    \/ InitBuildTexture
    \/ InitRecolorImage
    \/ InitRecolorShared
    \/ InitGenerateAllTests
    \/ InitCall

Next ==
    \/ EnumerateBatch
    \/ ComputeRepresentatives
    \/ TextureBatch
    \/ SaveAsBinary
    \/ SaveAsPngSlices
    \/ SaveAsPngAtlas
    \/ SaveNpy
    \/ AnalyzeBatch
    \/ AnalyzeRepresentatives
    \/ BuildTextureBatch
    \/ RecolorLoadLut
    \/ RecolorLoadImage
    \/ RecolorRow
    \/ RecolorSave
    \/ \E i \in Readers : RecolorPixel(i)
    \/ SuiteCheckLut
    \/ SuiteDownload
    \/ SuiteRecolor
    \/ SuiteCompare
    \/ SuiteCompile
    \/ CallLabBinIndex
    \/ CallLabIndex
    \/ CallRepresentative
    \/ CallTop1
    \/ CallApplyMatrix
    \/ CallConvertMat
    \/ CallRoundTrip
    \/ CallLabToRgb
    \/ CallLoadColorNames

Spec == Init /\ [][Next]_vars


(***************************************************************************)
(* Properties                                                              *)
(***************************************************************************)
\* the (bucket, position) pairs of a dict or array of buckets
Slots(buckets) == UNION {{<<k, i>> : i \in 1..Len(buckets[k])} : k \in DOMAIN buckets}

\* every lattice point sits in exactly one slot, and there are no other slots
IsPartition(buckets) ==
    /\ \A p \in Lattice :
          Cardinality({s \in Slots(buckets) : buckets[s[1]][s[2]] = point_entry(p)}) = 1
    /\ Cardinality(Slots(buckets)) = total_points

\* the buckets of analyze_bins before the representative loop
analyze_buckets == [k \in DOMAIN bin_data |-> bin_data[k].points]

\* C1: once the enumeration pass of compute_bin_representatives or analyze_bins
\* is over, every lattice point is in exactly one bucket and the bucket sizes
\* add up to the number of lattice points.
C1_PartitionComplete ==
    /\ (prog = "generate_textures" /\ pc \in {"aggregate", "texture", "built", "failed"})
          => IsPartition(bin_points)
    /\ (prog = "generate_bins" /\ pc = "aggregate") => IsPartition(analyze_buckets)

C1_Witness ==
    /\ prog = "generate_textures"
    /\ pc = "aggregate"
    /\ bins = 3
    /\ batch_size = 2
    /\ Cardinality({k \in DOMAIN bin_points : Len(bin_points[k]) > 0}) > 1

\* C2: when the texture is built, for every bin and every point the enumeration
\* put in its bucket, the texture holds at that point the representative computed
\* for the bin.
C2_LutMatchesEnumeration ==
    (prog = "generate_textures" /\ pc = "built") =>
        /\ \A p \in Lattice : \E s \in Slots(bin_points) :
              bin_points[s[1]][s[2]] = point_entry(p)
        /\ \A s \in Slots(bin_points) : \A p \in Lattice :
              bin_points[s[1]][s[2]] = point_entry(p) => texture[p] = representatives[s[1]]

C2_Witness ==
    /\ prog = "generate_textures"
    /\ pc = "built"
    /\ bins = 3
    /\ method = "average"
    /\ \E k \in DOMAIN bin_points : Len(bin_points[k]) > 1
    /\ Cardinality({texture[p] : p \in Lattice}) > 2

\* C3: every loop over the lattice handles the flat indices 0, 1, 2, ... in
\* increasing order, each once, and has handled all of them when it ends (all R
\* positions for build_texture's loop); flat index n is the point
\* (n div N^2, (n div N) mod N, n mod N) of the axis values, N values per axis.
C3_WalkedOnceInOrder ==
    /\ walked = slice(0, Len(walked))
    /\ (prog \in {"generate_textures", "generate_bins"} /\ pc \in {"aggregate", "built"})
          => Len(walked) = total_points
    /\ (prog = "build_texture" /\ pc = "built") => Len(walked) = Levels
    /\ \A n \in 0..(total_points - 1) :
          PointAt(n) = <<vals[n \div (Levels * Levels)], vals[(n \div Levels) % Levels],
                         vals[n % Levels]>>

C3_Witness ==
    /\ prog = "generate_textures"
    /\ pc = "built"
    /\ batch_size = 4
    /\ batch_idx = num_batches(total_points, 4)
    /\ total_points % 4 # 0

\* the entries of the whole lattice in flat order
all_entries == [n \in 1..total_points |-> point_entry(PointAt(n - 1))]

\* the buckets a single pass over the whole lattice makes
one_pass_buckets(b) ==
    [k \in 0..(total_bins(b) - 1) |->
       LET InBin(e) == lab_bin_index(e.L, e.a, e.b, b) = k
       IN  SelectSeq(all_entries, InBin)]

one_pass_representatives(b, m) ==
    [k \in 0..(total_bins(b) - 1) |->
       IF one_pass_buckets(b)[k] = <<>> THEN white
       ELSE representative(one_pass_buckets(b)[k], m)]

one_pass_texture(b, m) ==
    [p \in Lattice |->
       one_pass_representatives(b, m)[lab_bin_index(lab_of[p].L, lab_of[p].a, lab_of[p].b, b)]]

\* C4: whatever the batch size, the buckets (members and their order), the
\* representatives and the texture are those of a single pass over the lattice.
C4_BatchSizeIndependent ==
    /\ (prog = "generate_textures" /\ pc \in {"aggregate", "texture", "built"})
          => bin_points = one_pass_buckets(bins)
    /\ (prog = "generate_textures" /\ pc \in {"texture", "built"})
          => representatives = one_pass_representatives(bins, method)
    /\ (prog = "generate_textures" /\ pc = "built")
          => texture = one_pass_texture(bins, method)
    /\ (prog = "generate_bins" /\ pc = "aggregate")
          => \A k \in 0..(total_bins(bins) - 1) :
                IF k \in DOMAIN bin_data THEN bin_data[k].points = one_pass_buckets(bins)[k]
                ELSE one_pass_buckets(bins)[k] = <<>>
    /\ (prog = "generate_bins" /\ pc = "analyzed")
          => \A k \in DOMAIN bin_data :
                bin_data[k].representative = one_pass_representatives(bins, method)[k]

C4_Witness ==
    /\ prog = "generate_textures"
    /\ pc = "built"
    /\ batch_size = 3
    /\ bins = 2
    /\ method = "brightest"
    /\ \E k \in DOMAIN bin_points : Len(bin_points[k]) > batch_size

\* k is floor(num * n / den) clamped to [0, n - 1]
IsClampedFloor(k, num, den, n) ==
    /\ k \in 0..(n - 1)
    /\ k = 0 \/ num * n >= k * den
    /\ k = n - 1 \/ num * n < (k + 1) * den

\* C5: for every Lab input, in or out of the nominal ranges, and every bins,
\* lab_bin_index returns L_bin + a_bin * bins + b_bin * bins^2 with each bin the
\* floor of normalized * bins clamped to [0, bins - 1] (L normalized by / 100,
\* a and b by (v + 128) / 255); the index lies in [0, bins^3).
C5_UniformIndex ==
    (prog = "call" /\ pc = "returned" /\ arg.fn = "lab_bin_index") =>
        /\ ret.textures \in 0..(total_bins(arg.bins) - 1)
        /\ ret.bins[4] = ret.textures
        /\ \E Lb, ab, bb \in 0..(arg.bins - 1) :
              /\ IsClampedFloor(Lb, arg.L, 100 * F_ONE, arg.bins)
              /\ IsClampedFloor(ab, arg.a + 128 * F_ONE, 255 * F_ONE, arg.bins)
              /\ IsClampedFloor(bb, arg.b + 128 * F_ONE, 255 * F_ONE, arg.bins)
              /\ ret.textures = Lb + ab * arg.bins + bb * arg.bins * arg.bins
              /\ <<ret.bins[1], ret.bins[2], ret.bins[3]>> = <<Lb, ab, bb>>

C5_Witness ==
    /\ prog = "call"
    /\ pc = "returned"
    /\ arg.fn = "lab_bin_index"
    /\ arg.bins = 3
    /\ arg.L > 100 * F_ONE
    /\ arg.a < -128 * F_ONE
    /\ arg.b > 127 * F_ONE
    /\ ret.textures = 2 + 0 * 3 + 2 * 9

\* k is floor(v / 5) + shift clamped to [0, top]
IsClampedStep(k, v, shift, top) ==
    /\ k \in 0..top
    /\ k = 0 \/ v >= 5 * F_ONE * (k - shift)
    /\ k = top \/ v < 5 * F_ONE * (k - shift + 1)

\* C6: for every Lab value the four scripts compute the same fixed-step index
\* L_bin + 20 * A_bin + 840 * B_bin, with L_bin = floor(L / 5) clamped to [0, 19]
\* and A_bin, B_bin = floor(v / 5) + 21 clamped to [0, 41] (floor toward minus
\* infinity); the index lies in [0, 35279].
C6_FixedStepIndex ==
    (prog = "call" /\ pc = "returned" /\ arg.fn = "lab_index") =>
        /\ ret.calculate_lab_index \in 0..35279
        /\ ret.build_texture = ret.calculate_lab_index
        /\ ret.test_python = ret.calculate_lab_index
        /\ ret.test_comparison = ret.calculate_lab_index
        /\ \E Lb \in 0..19, Ab \in 0..41, Bb \in 0..41 :
              /\ IsClampedStep(Lb, arg.L, 0, 19)
              /\ IsClampedStep(Ab, arg.A, 21, 41)
              /\ IsClampedStep(Bb, arg.B, 21, 41)
              /\ ret.calculate_lab_index = Lb + 20 * Ab + 840 * Bb

C6_Witness ==
    /\ prog = "call"
    /\ pc = "returned"
    /\ arg.fn = "lab_index"
    /\ arg.L = 53241
    /\ arg.A = -4999
    /\ arg.B = -107860
    /\ ret.build_texture = 10 + 20 * 20 + 840 * 0

\* C7 as stated: an unknown method name makes compute_bin_representatives and
\* analyze_bins fail before any lattice point is enumerated or put in a bucket.
C7_FailsBeforeEnumeration ==
    (prog \in {"generate_textures", "generate_bins"} /\ pc = "failed") =>
        /\ walked = <<>>
        /\ prog = "generate_textures" => Slots(bin_points) = {}
        /\ prog = "generate_bins" => DOMAIN bin_data = {}

\* rgb is the rgb of the first entry of least L
IsFirstDarkest(points, rgb) ==
    \E i \in 1..Len(points) :
        /\ points[i].rgb = rgb
        /\ \A j \in 1..Len(points) : points[i].L <= points[j].L
        /\ \A j \in 1..(i - 1) : points[j].L > points[i].L

\* rgb is the rgb of the first entry of greatest L
IsFirstBrightest(points, rgb) ==
    \E i \in 1..Len(points) :
        /\ points[i].rgb = rgb
        /\ \A j \in 1..Len(points) : points[i].L >= points[j].L
        /\ \A j \in 1..(i - 1) : points[j].L < points[i].L

\* the representative of every occupied bin of either script satisfies Is
PolicyHolds(m, Is(_, _)) ==
    /\ (prog = "call" /\ pc = "returned" /\ arg.fn = "representative" /\ arg.method = m)
          => Is(arg.points, ret)
    /\ (prog = "generate_textures" /\ pc \in {"texture", "built"} /\ method = m)
          => \A k \in DOMAIN bin_points :
                bin_points[k] # <<>> => Is(bin_points[k], representatives[k])
    /\ (prog = "generate_bins" /\ pc = "analyzed" /\ method = m)
          => \A k \in DOMAIN bin_data :
                Is(one_pass_buckets(bins)[k], bin_data[k].representative)

\* C8: under 'darkest' the representative of a non-empty bucket is the RGB of a
\* member of least L, the first enumerated of those that share the least L.
C8_Darkest == PolicyHolds("darkest", IsFirstDarkest)

C8_Witness ==
    /\ prog = "call"
    /\ pc = "returned"
    /\ arg.fn = "representative"
    /\ arg.method = "darkest"
    /\ Len(arg.points) = 3
    /\ arg.points[1].L > arg.points[2].L
    /\ arg.points[2].L = arg.points[3].L
    /\ arg.points[2].rgb # arg.points[3].rgb
    /\ ret = arg.points[2].rgb

\* C9: under 'brightest' the representative of a non-empty bucket is the RGB of
\* a member of greatest L, the first enumerated of those that share it.
C9_Brightest == PolicyHolds("brightest", IsFirstBrightest)

C9_Witness ==
    /\ prog = "call"
    /\ pc = "returned"
    /\ arg.fn = "representative"
    /\ arg.method = "brightest"
    /\ Len(arg.points) = 3
    /\ arg.points[1].L < arg.points[2].L
    /\ arg.points[2].L = arg.points[3].L
    /\ arg.points[2].rgb # arg.points[3].rgb
    /\ ret = arg.points[2].rgb

\* m is the mean of channel ch over the bucket, rounded down to the model's unit
IsMean(m, points, ch) ==
    LET total == SumSeq([i \in 1..Len(points) |-> points[i][ch]], 1)
    IN  /\ m * Len(points) <= total
        /\ total < (m + 1) * Len(points)

\* rgb is lab_to_rgb of the per-channel mean Lab of the bucket; if the bucket has
\* two entries of different L, the mean L lies strictly between them
IsLabAverage(points, rgb) ==
    /\ \E lab \in {average_lab(points)} :
          /\ IsMean(lab.L, points, "L")
          /\ IsMean(lab.a, points, "a")
          /\ IsMean(lab.b, points, "b")
          /\ rgb = lab_to_rgb(lab)
    /\ (Len(points) = 2 /\ points[1].L # points[2].L) =>
          /\ Min(points[1].L, points[2].L) < average_lab(points).L
          /\ average_lab(points).L < Max(points[1].L, points[2].L)

\* C10: under 'average' the representative of an occupied bin is lab_to_rgb of
\* the per-channel arithmetic mean of the Lab triples of the bucket (not a mean
\* of RGB values); for two entries of different L the mean L lies strictly
\* between the two.
C10_Average == PolicyHolds("average", IsLabAverage)

C10_Witness ==
    /\ prog = "call"
    /\ pc = "returned"
    /\ arg.fn = "representative"
    /\ arg.method = "average"
    /\ Len(arg.points) = 2
    /\ arg.points[1].rgb = rgb_norm(<<10, 10, 10>>)
    /\ arg.points[2].rgb = rgb_norm(<<200, 200, 200>>)
    /\ arg.points[1].L = 2742
    /\ arg.points[2].L = 80604
    /\ ret # arg.points[1].rgb
    /\ ret # arg.points[2].rgb
    /\ ret # average_rgb_mean(arg.points)

\* i (from 0) is the lowest index of a largest entry of the row
IsLowestMaximal(probs, i) ==
    /\ i + 1 \in 1..Len(probs)
    /\ \A j \in 1..Len(probs) : probs[j] <= probs[i + 1]
    /\ \A j \in 1..i : probs[j] < probs[i + 1]

\* C11: for every probability row the chosen name index is the lowest index of
\* a maximal entry, and build_texture, apply_matrix_to_pixel and the top-1 of
\* test_python's sorted ranking choose the same index.
C11_TopOne ==
    (prog = "call" /\ pc = "returned" /\ arg.fn = "top1") =>
        /\ IsLowestMaximal(arg.probs, ret.build_texture)
        /\ IsLowestMaximal(arg.probs, ret.apply_matrix_to_pixel)
        /\ IsLowestMaximal(arg.probs, ret.test_python)

C11_Witness ==
    /\ prog = "call"
    /\ pc = "returned"
    /\ arg.fn = "top1"
    /\ arg.probs = <<10, 50, 50>>
    /\ ret.build_texture = 1
    /\ ret.test_python = 1

\* C12: in the uniform-cube pipeline every bin whose bucket is empty keeps the
\* default white, no policy is evaluated on an empty bucket, and where the
\* texture holds the representative of an empty bin it holds white.
C12_EmptyBinsWhite ==
    /\ (prog = "generate_textures" /\ pc \in {"texture", "built"}) =>
          /\ \A k \in DOMAIN bin_points :
                bin_points[k] = <<>> => representatives[k] = <<RGB_ONE, RGB_ONE, RGB_ONE>>
          /\ \A k \in evaluated : bin_points[k] # <<>>
    /\ (prog = "generate_textures" /\ pc = "built") =>
          \A p \in Lattice :
              bin_points[texture_bin_index(p, bins)] = <<>>
                  => texture[p] = <<RGB_ONE, RGB_ONE, RGB_ONE>>
    /\ (prog = "generate_bins" /\ pc = "analyzed") =>
          \A k \in evaluated : one_pass_buckets(bins)[k] # <<>>

C12_Witness ==
    /\ prog = "generate_textures"
    /\ pc = "built"
    /\ bins = 3
    /\ \E k \in DOMAIN bin_points : bin_points[k] = <<>> /\ k \notin evaluated
    /\ \E k \in DOMAIN bin_points : bin_points[k] # <<>> /\ k \in evaluated

\* C13: a point whose fixed-step index has no row in the loaded matrix passes
\* through unchanged: build_texture stores (r, g, b) at texture[r, g, b],
\* apply_matrix_to_pixel returns (r, g, b), and neither raises because of it.
C13_AbsentBinPassesThrough ==
    /\ (prog = "build_texture" /\ pc = "built") =>
          \A p \in Lattice :
              calculate_lab_index(p[1], p[2], p[3]) \notin DOMAIN color_data
                  => texture[p] = p
    /\ (prog = "build_texture" /\ DOMAIN color_data = {}) => pc # "failed"
    /\ (/\ prog = "call"
        /\ pc # "call"
        /\ arg.fn = "apply_matrix_to_pixel"
        /\ calculate_lab_index(arg.pixel[1], arg.pixel[2], arg.pixel[3])
               \notin DOMAIN arg.color_data)
          => (pc = "returned" /\ ret = arg.pixel)

C13_Witness ==
    /\ prog = "build_texture"
    /\ pc = "built"
    /\ \E p \in Lattice :
          /\ calculate_lab_index(p[1], p[2], p[3]) \notin DOMAIN color_data
          /\ texture[p] = p
          /\ p # <<0, 0, 0>>
    /\ \E p \in Lattice :
          /\ calculate_lab_index(p[1], p[2], p[3]) \in DOMAIN color_data
          /\ texture[p] # p

\* C14: the output array of recolor_image has the height and width of the input
\* image, and its pixel at (y, x) is lut[r, g, b] for the (r, g, b) of the input
\* pixel at the same position.
C14_RecolorPerPixel ==
    (prog = "recolor_image" /\ pc \in {"save", "returned"}) =>
        LET img == files[arg.input_path]
            lut == files[arg.lut_path]
        IN  /\ Len(output_array) = img.size[2]
            /\ \A y \in 0..(img.size[2] - 1) :
                  /\ Len(output_array[y + 1]) = img.size[1]
                  /\ \A x \in 0..(img.size[1] - 1) :
                        LET px == img.pixels[<<x, y>>]
                        IN  output_array[y + 1][x + 1] = lut[<<px[1], px[2], px[3]>>]

C14_Witness ==
    /\ prog = "recolor_image"
    /\ pc = "returned"
    /\ files[arg.input_path].size = <<2, 2>>
    /\ files[arg.input_path].pixels[<<1, 0>>] # files[arg.input_path].pixels[<<0, 1>>]
    /\ output_array[1][2] # output_array[2][1]
    /\ output_array[1][2] # files[arg.input_path].pixels[<<1, 0>>]

LutMissingReported ==
    /\ \E i \in 1..Len(log) : log[i] = <<"Error: LUT file not found at", arg.lut_path>>
    /\ \E i \in 1..Len(log) :
          log[i] = <<"Please run build_texture.py first to generate the lookup table.">>

\* C15: without the LUT file recolor_image ends with exit status 1 after
\* reporting the missing path and the build step, with the input image not
\* opened and no output written; with the LUT and the input image both there it
\* never fails: until it has returned it can take its next step, the row loop
\* stays inside the image, and when it has returned the output is written.
C15_MissingLutFailsFast ==
    /\ (prog = "recolor_image" /\ arg.lut_path \notin DOMAIN files /\ pc # "load_lut")
          => /\ pc = "exited"
             /\ ret = [exit_status |-> 1]
             /\ LutMissingReported
             /\ img_array = None
             /\ output_path_of(arg.input_path) \notin DOMAIN files
    /\ (prog = "recolor_image" /\ arg.lut_path \in DOMAIN files
          /\ arg.input_path \in DOMAIN files)
          => /\ pc \in {"load_lut", "load_image", "recolor", "save", "returned"}
             /\ pc # "returned" =>
                   ENABLED (RecolorLoadLut \/ RecolorLoadImage \/ RecolorRow \/ RecolorSave)
             /\ pc = "recolor" => batch_idx < Len(img_array)
             /\ pc = "returned" =>
                   /\ ret = output_path_of(arg.input_path)
                   /\ ret \in DOMAIN files
                   /\ ~LutMissingReported

C15_Witness ==
    /\ prog = "recolor_image"
    /\ pc = "exited"
    /\ arg.lut_path \notin DOMAIN files
    /\ arg.input_path \in DOMAIN files
    /\ Len(log) = 3

\* C16 as stated: every representative the build assigns to a bin is a fixed
\* point of the LUT: the LUT holds c at c, for the representative c of every
\* occupied bin of the uniform-cube pipeline under every policy, and for every
\* name colour the classification pipeline stores.
C16_RepresentativesFixedPoints ==
    /\ (prog = "generate_textures" /\ pc = "built") =>
          \A k \in evaluated :
              to_uint8(representatives[k]) \in Lattice
                  => texture[to_uint8(representatives[k])] = representatives[k]
    /\ (prog = "build_texture" /\ pc = "built") =>
          \A p \in Lattice :
              (/\ calculate_lab_index(p[1], p[2], p[3]) \in DOMAIN color_data
               /\ texture[p] \in Lattice)
                  => texture[texture[p]] = texture[p]

\* array positions along one axis of the table
Axis == 0..(Levels - 1)

C18_DocumentedAccess ==
    prog = "generate_textures" =>
        /\ export_path("rgb_texture_atlas.png", bins, method, 0) \in DOMAIN files =>
              \A r \in Axis, g \in Axis, b \in Axis :
                  files[export_path("rgb_texture_atlas.png", bins, method, 0)]
                        .pixels[documented_atlas_pixel(r, g, b)]
                      = texture_uint8(texture, r, g, b)
        /\ \A r \in Axis :
              export_path("slice.png", bins, method, r) \in DOMAIN files =>
                  \A g \in Axis, b \in Axis :
                      files[export_path("slice.png", bins, method, r)]
                            .pixels[documented_slice_pixel(g, b)]
                          = texture_uint8(texture, r, g, b)

\* C19 as stated: with the export format 'bin' or 'all' a run with a known
\* policy never fails, and once save_as_binary is past the raw file holds
\* N*N*N*3 bytes and the JSON sidecar is there.
C19_RawExportCompletes ==
    (prog = "generate_textures" /\ method \in Methods /\ js_format \in {"bin", "all"}) =>
        /\ pc # "failed"
        /\ pc \in {"save_slices", "save_atlas", "save_npy", "done"} =>
              /\ export_path("rgb_texture.bin", bins, method, 0) \in DOMAIN files
              /\ Len(files[export_path("rgb_texture.bin", bins, method, 0)])
                    = Levels * Levels * Levels * 3
              /\ export_path("rgb_texture.json", bins, method, 0) \in DOMAIN files

\* the two mismatches of the loaded files: the matrix lacks the row of a bin
\* the lattice reaches (the reduced table's stand-in for a row count other than
\* 20 * 42 * 42), or the name list is not as long as a row of weights is wide
SchemaMismatch(data, names) ==
    \/ DOMAIN data # LatticeIndices
    \/ \E index \in DOMAIN data : Len(data[index]) # Len(names)

\* C20 as stated: a matrix with the wrong row count, or a name list whose
\* length differs from the width of the probability rows, ends in a reported
\* error: build_texture builds no LUT from them and apply_matrix_to_pixel
\* returns no colour.
C20_SchemaMismatchSurfaced ==
    /\ (prog = "build_texture" /\ SchemaMismatch(color_data, color_names))
          => pc # "built"
    /\ (/\ prog = "call"
        /\ arg.fn = "apply_matrix_to_pixel"
        /\ SchemaMismatch(arg.color_data, arg.color_names))
          => pc # "returned"

\* C21 as stated: every line convert_mat writes is normalized: the printed
\* probabilities of every row of the source matrix sum to 1, up to half a unit
\* of the last printed decimal for each entry.
C21_RowsNormalized ==
    (prog = "call" /\ arg.fn = "convert_mat" /\ pc = "returned") =>
        \A n \in 1..Len(ret.lines) :
            LET total == SumSeq(ret.lines[n].probs, 1)
            IN  /\ 2 * (total - PRINT_ONE) <= Len(ret.lines[n].probs)
                /\ 2 * (PRINT_ONE - total) <= Len(ret.lines[n].probs)

\* C22: the LUT is read-only after it is loaded.  No step of recolor_image
\* after np.load changes the loaded LUT or the LUT file, and no step after
\* np.array(img) changes the input pixel array or the input file; the only
\* array the pixel loop changes is output_array.
C22_LutReadOnly ==
    [][(prog = "recolor_image" /\ pc \in {"load_image", "recolor", "save"}) =>
          /\ texture' = texture
          /\ files'[arg.lut_path] = files[arg.lut_path]
          /\ pc \in {"recolor", "save"} =>
                /\ img_array' = img_array
                /\ files'[arg.input_path] = files[arg.input_path]]_vars

\* a finished recoloring whose output differs from its input
C22_Witness ==
    /\ prog = "recolor_image"
    /\ pc = "returned"
    /\ output_array # img_array
    /\ texture = files[arg.lut_path]
    /\ np_array(files[arg.input_path]) = img_array

\* C23: concurrent readers.  When several recolorings share one LUT and their
\* per-pixel steps are interleaved in any order, the LUT and the inputs stay
\* as they were, every pixel a reader has done holds what the reader writes
\* there when it runs alone, every pixel not yet done is untouched, and a
\* finished reader's output is the output of its run alone.
C23_ConcurrentReaders ==
    prog = "recolor_shared" =>
        /\ texture = arg.lut
        /\ img_array = arg.images
        /\ \A i \in Readers :
              LET alone == recolor_rows(arg.lut, arg.images[i], zeros_like(arg.images[i]), 0)
                  width == Len(arg.images[i][1])
              IN  /\ \A n \in 0..(num_pixels(arg.images[i]) - 1) :
                        output_array[i][(n \div width) + 1][(n % width) + 1] =
                            IF n < batch_idx[i]
                            THEN alone[(n \div width) + 1][(n % width) + 1]
                            ELSE <<0, 0, 0>>
                  /\ batch_idx[i] >= num_pixels(arg.images[i]) => output_array[i] = alone

\* two readers with different images, both part of the way through
C23_Witness ==
    /\ prog = "recolor_shared"
    /\ arg.images[1] # arg.images[2]
    /\ \A i \in Readers : batch_idx[i] > 0 /\ batch_idx[i] < num_pixels(arg.images[i])
    /\ output_array[1] # output_array[2]

\* C24: round trip.  For every in-gamut RGB triple x, lab_to_rgb(rgb_to_lab(x))
\* is x within 1e-3 in each channel, and lab_to_rgb returns values in [0, 1]
\* for every Lab input, out of gamut or not.
C24_RoundTrip ==
    /\ (prog = "call" /\ arg.fn = "round_trip" /\ pc = "returned") =>
          \A c \in 1..3 :
              /\ Abs(ret.rgb[c] - rgb8(arg.rgb[c])) <= ONE8 \div 1000
              /\ ret.rgb[c] \in 0..ONE8
    /\ (prog = "call" /\ arg.fn = "lab_to_rgb" /\ pc = "returned") =>
          \A c \in 1..3 : ret[c] \in 0..ONE8

\* a round trip through both branches of the gamma curve that does not give
\* back the very same number
C24_Witness ==
    /\ prog = "call"
    /\ arg.fn = "round_trip"
    /\ pc = "returned"
    /\ arg.rgb = <<255, 10, 11>>
    /\ \E c \in 1..3 : ret.rgb[c] # rgb8(arg.rgb[c])

Digits == {"0", "1", "2", "3", "4", "5", "6", "7", "8", "9"}

\* a line begins with '<n>.': one or more digits, then a '.'
RECURSIVE HasNumberPrefix(_, _)
HasNumberPrefix(line, seen) ==
    IF line = <<>> THEN FALSE
    ELSE IF Head(line) \in Digits THEN HasNumberPrefix(Tail(line), TRUE)
    ELSE seen /\ Head(line) = "."

\* the name a line defines: quotes and commas stripped, a leading '<n>.' removed
NameOfLine(line) ==
    LET stripped == strip(strip(line, Whitespace), {"'", ","})
    IN  IF HasNumberPrefix(stripped, FALSE) THEN split_dot_1(stripped) ELSE stripped

\* the names of the non-blank lines of a file, in file order
RECURSIVE NamesOfLines(_)
NamesOfLines(lines) ==
    IF lines = <<>> THEN <<>>
    ELSE IF strip(Head(lines), Whitespace) = <<>> THEN NamesOfLines(Tail(lines))
    ELSE <<NameOfLine(Head(lines))>> \o NamesOfLines(Tail(lines))

\* C25 as stated: load_color_names returns one name per non-blank line, in
\* file order, each the line with the surrounding quotes and commas stripped
\* and an optional leading '<n>.' removed, and the loader of build_texture
\* returns the same list.
C25_NameListLoading ==
    (prog = "call" /\ arg.fn = "load_color_names" /\ pc = "returned") =>
        /\ ret.calculate_probabilities = NamesOfLines(arg.lines)
        /\ ret.build_texture = ret.calculate_probabilities

\* C26 as stated: the .npy file main writes is the same table of bytes as the
\* other exports: for every (r, g, b) its entry is the quantised value
\* texture_uint8[r, g, b] the raw buffer and the PNG exports hold.
C26_NpyIsByteTable ==
    (/\ prog = "generate_textures"
     /\ export_path("rgb_texture.npy", bins, method, 0) \in DOMAIN files) =>
        \A r \in Axis, g \in Axis, b \in Axis :
            files[export_path("rgb_texture.npy", bins, method, 0)][<<vals[r], vals[g], vals[b]>>]
                = texture_uint8(texture, r, g, b)

\* C27 as stated: for the same matrix and the same name list,
\* apply_matrix_to_pixel(r, g, b) returns the colour build_texture stores at
\* texture[r, g, b], for every RGB triple and every name list, whether or not
\* each name has an entry in COLOR_RGB_VALUES.
C27_ClassifierMatchesLut ==
    (prog = "call" /\ arg.fn = "apply_matrix_to_pixel" /\ pc = "returned") =>
        ret = texture_entry(arg.pixel, arg.color_data, arg.color_names)

\* a row of weights that are all zero
IsZeroRow(probs) == \A n \in 1..Len(probs) : probs[n] = 0

uniform_decode(index, n) == <<index % n, (index \div n) % n, index \div (n * n)>>

\* the per-axis bins read back from a composite index of the fixed scheme
fixed_decode(index) == <<index % 20, (index \div 20) % 42, index \div (20 * 42)>>

\* the composite of the uniform scheme is one-to-one from the clamped bin
\* triples onto 0 .. bins^3 - 1, for every bin count of the model
UniformCompositeBijection ==
    \A n \in 1..MaxBins :
        /\ \A L_bin \in 0..(n - 1), a_bin \in 0..(n - 1), b_bin \in 0..(n - 1) :
              /\ composite_index(L_bin, a_bin, b_bin, n) \in 0..(n * n * n - 1)
              /\ uniform_decode(composite_index(L_bin, a_bin, b_bin, n), n)
                    = <<L_bin, a_bin, b_bin>>
        /\ \A index \in 0..(n * n * n - 1) :
              LET t == uniform_decode(index, n)
              IN  /\ t[1] \in 0..(n - 1) /\ t[2] \in 0..(n - 1) /\ t[3] \in 0..(n - 1)
                  /\ composite_index(t[1], t[2], t[3], n) = index

\* the composite of the fixed scheme is one-to-one from the clamped bin
\* triples onto 0 .. 20 * 42 * 42 - 1
FixedCompositeBijection ==
    /\ \A L_bin \in 0..19, A_bin \in 0..41, B_bin \in 0..41 :
          /\ lab_composite_index(L_bin, A_bin, B_bin) \in 0..(20 * 42 * 42 - 1)
          /\ fixed_decode(lab_composite_index(L_bin, A_bin, B_bin)) = <<L_bin, A_bin, B_bin>>
    /\ \A index \in 0..(20 * 42 * 42 - 1) :
          LET t == fixed_decode(index)
          IN  /\ t[1] \in 0..19 /\ t[2] \in 0..41 /\ t[3] \in 0..41
              /\ lab_composite_index(t[1], t[2], t[3]) = index

\* C29: under both schemes the composite index is a bijection between the
\* clamped per-axis bin triples and 0 .. total bins - 1: the index returned for
\* a Lab value is the composite of its clamped per-axis bins, it lies in the
\* range, and two Lab values get the same index exactly when their per-axis
\* bins are the same; so in generate_bins the label and the per-axis bins that
\* a bin recorded when it was first seen are those of every point stored in it
C29_CompositeIndexBijection ==
    /\ (prog = "call" /\ pc = "returned" /\ arg.fn = "lab_bin_index") =>
          /\ UniformCompositeBijection
          /\ ret.bins[1] \in 0..(arg.bins - 1)
          /\ ret.bins[2] \in 0..(arg.bins - 1)
          /\ ret.bins[3] \in 0..(arg.bins - 1)
          /\ ret.bins[4] = composite_index(ret.bins[1], ret.bins[2], ret.bins[3], arg.bins)
          /\ ret.bins[4] \in 0..(arg.bins * arg.bins * arg.bins - 1)
          /\ uniform_decode(ret.bins[4], arg.bins) = <<ret.bins[1], ret.bins[2], ret.bins[3]>>
          /\ \A L \in UniformLProbe, a \in UniformAProbe, b \in UniformBProbe :
                LET other == lab_bin_index_gb(L, a, b, arg.bins)
                IN  (other[4] = ret.bins[4]) <=>
                       (<<other[1], other[2], other[3]>>
                           = <<ret.bins[1], ret.bins[2], ret.bins[3]>>)
    /\ (prog = "call" /\ pc = "returned" /\ arg.fn = "lab_index") =>
          /\ FixedCompositeBijection
          /\ LET t == lab_axis_bins(arg.L, arg.A, arg.B)
             IN  /\ ret.calculate_lab_index = lab_composite_index(t[1], t[2], t[3])
                 /\ ret.calculate_lab_index \in 0..(20 * 42 * 42 - 1)
                 /\ fixed_decode(ret.calculate_lab_index) = t
                 /\ \A L \in FixedLProbe, A \in FixedAProbe, B \in FixedBProbe :
                       (lab_index_calc(L, A, B) = ret.calculate_lab_index) <=>
                          (lab_axis_bins(L, A, B) = t)
    /\ (prog = "generate_bins" /\ pc \in {"enumerate", "aggregate"}) =>
          \A k \in DOMAIN bin_data :
              /\ bin_data[k].label
                    = bin_label(bin_data[k].L_bin, bin_data[k].a_bin, bin_data[k].b_bin)
              /\ \A i \in 1..Len(bin_data[k].points) :
                    LET e == bin_data[k].points[i]
                    IN  lab_bin_index_gb(e.L, e.a, e.b, bins)
                           = <<bin_data[k].L_bin, bin_data[k].a_bin, bin_data[k].b_bin, k>>

\* a bin of generate_bins that holds two points of different Lab values, in a
\* run where some other bin shares one per-axis bin with it
C29_Witness ==
    /\ prog = "generate_bins"
    /\ pc = "aggregate"
    /\ \E k \in DOMAIN bin_data :
          /\ Len(bin_data[k].points) >= 2
          /\ <<bin_data[k].points[1].L, bin_data[k].points[1].a, bin_data[k].points[1].b>>
                # <<bin_data[k].points[2].L, bin_data[k].points[2].a, bin_data[k].points[2].b>>
          /\ \E j \in DOMAIN bin_data :
                /\ j # k
                /\ bin_data[j].L_bin = bin_data[k].L_bin


\* the steps of main's loop, in the order of the loop body
SuiteSteps == <<"download", "recolor", "compare">>

\* the position of a step in the loop body
step_number(step) == CHOOSE n \in 1..3 : SuiteSteps[n] = step

\* the images whose comparison succeeded, in the order of the calls
RECURSIVE completed_images(_)
completed_images(calls) ==
    IF calls = <<>> THEN <<>>
    ELSE LET c == Head(calls)
         IN  IF c[2] = "compare" /\ c[3]
             THEN <<c[1]>> \o completed_images(Tail(calls))
             ELSE completed_images(Tail(calls))

\* C30: in generate_all_tests.main each image goes through download, recolor,
\* comparison in that order; a step is attempted only right after the previous
\* step of the same image succeeded; a failed step ends only its own image, so
\* every image up to NUM_IMAGES gets its download once the loop is over; the
\* list handed to compile_to_pdf holds exactly the comparison paths of the
\* images whose three steps succeeded, in increasing image number; and without
\* the table file nothing is downloaded
C30_SuitePipeline ==
    (prog = "generate_all_tests") =>
       /\ \A n \in 1..Len(attempted) :
             LET c == attempted[n]
             IN  /\ c[1] \in 1..NUM_IMAGES
                 /\ IF c[2] = "download"
                    THEN IF n = 1 THEN c[1] = 1
                         ELSE /\ attempted[n - 1][1] = c[1] - 1
                              /\ \/ ~attempted[n - 1][3]
                                 \/ attempted[n - 1][2] = "compare"
                    ELSE /\ n > 1
                         /\ attempted[n - 1][1] = c[1]
                         /\ step_number(attempted[n - 1][2]) = step_number(c[2]) - 1
                         /\ attempted[n - 1][3]
       /\ pc \in {"compile", "done"} =>
             /\ \A index \in 1..NUM_IMAGES :
                   \E n \in 1..Len(attempted) :
                       attempted[n][1] = index /\ attempted[n][2] = "download"
             /\ \A n \in 1..Len(attempted) :
                   (attempted[n][3] /\ attempted[n][2] # "compare") =>
                      /\ n < Len(attempted)
                      /\ attempted[n + 1][1] = attempted[n][1]
       /\ pc \notin {"check", "exit"} =>
             LET done == completed_images(attempted)
             IN  /\ Len(comparison_paths) = Len(done)
                 /\ \A n \in 1..Len(done) :
                       /\ comparison_paths[n] = comparison_path_of(done[n])
                       /\ \A k \in 1..(n - 1) : done[k] < done[n]
                       /\ \A step \in {"download", "recolor", "compare"} :
                             \E k \in 1..Len(attempted) :
                                 attempted[k] = <<done[n], step, TRUE>>
       /\ (pc = "done" /\ os_path_exists(files, OUTPUT_PDF)) =>
             files[OUTPUT_PDF] = comparison_paths
       /\ ~os_path_exists(files, SuiteLutPath) =>
             /\ pc \in {"check", "exit"}
             /\ attempted = <<>>
             /\ \A index \in 1..NUM_IMAGES : ~os_path_exists(files, test_image_path(index))

\* a finished run in which one image failed at its download, a later one at
\* its recoloring, and a still later one went through all three steps
C30_Witness ==
    /\ prog = "generate_all_tests"
    /\ pc = "done"
    /\ \E x \in 1..NUM_IMAGES, y \in 1..NUM_IMAGES, z \in 1..NUM_IMAGES :
          /\ x < y /\ y < z
          /\ \E n \in 1..Len(attempted) : attempted[n] = <<x, "download", FALSE>>
          /\ \E n \in 1..Len(attempted) : attempted[n] = <<y, "recolor", FALSE>>
          /\ \E n \in 1..Len(attempted) : attempted[n] = <<z, "compare", TRUE>>
          /\ comparison_paths = <<comparison_path_of(z)>>


=============================================================================
